---------------------------- MODULE Spec2Model ----------------------------
(***************************************************************************)
(* Publish reconciliation engine of the JotBird Obsidian plugin            *)
(* (class JotBirdPlugin): the path-keyed record mapping, its durable copy, *)
(* the remote create/update/delete/claim calls, the tier-upgrade sweep and *)
(* the serialized status check.                                            *)
(***************************************************************************)
EXTENDS Integers, Sequences, FiniteSets, TLC

(* ------------------------------ bounds -------------------------------- *)
\* successful publishes (each takes one timestamp) the model follows
MaxPublishes == 2
\* slugs the remote service mints (creates and claims that return a new slug)
MaxSlugs == 3
\* checkProStatus invocations that overlap
MaxCallers == 3
\* the sweep counter saturates here
SweepCap == 2
\* device fingerprints crypto.randomUUID() hands out
MaxUuids == 2
\* characters of a text at most, and of a document with a header
MaxText == 6
MaxDocument == 10
\* characters of a text with image references
MaxMarkup == 16

(* ------------------------------ values -------------------------------- *)
Paths == {"a.md", "b.md", "c.md"}
Undefined == "undefined"
\* proCheckInFlight = null: no check is in flight (callers are numbered from 1)
NoCheck == 0
NoKey == ""
\* deviceFingerprint: string = "", and a stored state without the key
NoFingerprint == ""
\* crypto.randomUUID(): every value is new
Uuid(n) == "uuid-" \o ToString(n)
ValidKey == "jb_key"
TtlNull == "null"
TtlDays == {TtlNull, "90"}
TrialTtlDays == {"30"}
ExpiryDate == "2026-12-01"
\* an expiresAt timestamp: its first ten characters, then the rest
ExpiresAt == <<ExpiryDate, "T12:00:00.000Z">>
\* result.expiresAt ?? "": the response carries no expiry
NoExpiry == <<>>
Never == "never"

SlugName(n) == "s" \o ToString(n)
TokenOf(slug) == "tok-" \o slug
\* a url is its origin followed by the segments of its path
Origin == "https://share.jotbird.com"
UrlOf(slug) == <<Origin, slug>>

DEFAULT_SETTINGS == [apiKey |-> NoKey, storeFrontmatter |-> TRUE]
\* the header keys the plugin reads or writes; <<>> and Undefined: key absent.
\* jotbird_url, jotbird_slug and jotbird_published are the keys of earlier versions
EmptyFm == [jotbird_link |-> <<>>, jotbird_expires |-> Undefined,
            jotbird_url |-> <<>>, jotbird_slug |-> Undefined, jotbird_published |-> <<>>]
\* the header an earlier version wrote for a document it published
LegacyFm(slug) == [EmptyFm EXCEPT !.jotbird_url = UrlOf(slug), !.jotbird_slug = slug,
                                  !.jotbird_published = <<0 - 1>>]
NoNotes == [p \in {} |-> Undefined]

VARIABLES
    settings,          \* this.settings (apiKey, storeFrontmatter)
    publishedNotes,    \* this.publishedNotes: path -> PublishedNote
    isPro,             \* this.isPro
    proRefreshDone,    \* this.proRefreshDone
    deviceFingerprint, \* this.deviceFingerprint
    nextUuid,          \* number of the next value crypto.randomUUID() returns
    proCheckInFlight,  \* this.proCheckInFlight: NoCheck or the caller whose promise it is
    stored,            \* the PluginData last written by saveData
    files,             \* paths of the documents that exist in the vault
    frontmatter,       \* path -> mirrored metadata header keys of the document
    content,           \* the text of the document the user is writing
    nextSlug,          \* remote service: number of the next slug it mints
    clock,             \* successful publishes so far (the publishedAt timestamp)
    pub,               \* the publishFile invocation in progress
    unpub,             \* the unpublishNote invocation in progress
    sweep,             \* the claimAnonymousDocuments invocation in progress
    chk,               \* caller -> state of its checkProStatus invocation
    waitq,             \* callers awaiting the in-flight promise, in order of registration
    microtasks,        \* continuations ready to run, in order
    calls,             \* remote calls issued by the operation in progress (or the last one)
    replies,           \* what the remote service answered to them, in order
    outcome,           \* how the last operation ended
    hist               \* history the properties refer to

plugin == <<settings, publishedNotes, isPro, proRefreshDone>>
install == <<deviceFingerprint, nextUuid>>
vault == <<files, frontmatter, content>>
remote == <<nextSlug, clock>>
status == <<proCheckInFlight, chk, waitq, microtasks>>
io == <<calls, replies>>
vars == <<plugin, install, stored, vault, remote, pub, unpub, sweep, status, io, outcome, hist>>

Keys(notes) == DOMAIN notes
NoNote == [undefined |-> TRUE]
Lookup(notes, p) == IF p \in DOMAIN notes THEN notes[p] ELSE NoNote
Put(notes, p, note) == [q \in DOMAIN notes \cup {p} |-> IF q = p THEN note ELSE notes[q]]
Remove(notes, p) == [q \in DOMAIN notes \ {p} |-> notes[q]]
SlugOf(note) == IF note = NoNote THEN Undefined ELSE note.slug
EditTokenOf(note) == IF note = NoNote THEN Undefined ELSE note.editToken


\* the service's answer to a call is a response or an error message
Failure(err) == [error |-> err]
IsError(reply) == "error" \in DOMAIN reply

(* --------------------------- initial state ---------------------------- *)
IdlePub == [pc |-> "idle", path |-> "", hasApiKey |-> FALSE, existing |-> NoNote]
IdleUnpub == [pc |-> "idle", path |-> "", published |-> NoNote]
\* again: a second invocation started while this one was awaiting a claim
IdleAgain == [pc |-> "idle", start |-> NoNotes, rest |-> {}, order |-> <<>>, claimed |-> 0]
IdleSweep == [pc |-> "idle", start |-> NoNotes, rest |-> {}, order |-> <<>>, claimed |-> 0,
              again |-> IdleAgain]
IdleCaller == [pc |-> "idle", kind |-> "", hadKey |-> FALSE, waited |-> FALSE,
               own |-> FALSE, awaitedOwn |-> FALSE, failed |-> FALSE]
Callers == 1..MaxCallers

PluginData(s, notes, done) ==
    [settings |-> s, publishedNotes |-> notes, deviceFingerprint |-> deviceFingerprint,
     proRefreshDone |-> done]

NoHist == [tracked |-> {}, sweeps |-> 0, pubSweeps |-> 0, everSwept |-> FALSE,
           swept |-> FALSE, excluded |-> "", fmFailed |-> {}, anon |-> {}]

Init ==
    /\ settings \in {[DEFAULT_SETTINGS EXCEPT !.apiKey = k] : k \in {NoKey, ValidKey}}
    /\ publishedNotes = NoNotes
    /\ isPro = FALSE
    /\ proRefreshDone = FALSE
    /\ deviceFingerprint = Uuid(1)
    /\ nextUuid = 2
    /\ proCheckInFlight = NoCheck
    /\ stored = [PluginData(settings, NoNotes, FALSE) EXCEPT
                    !.deviceFingerprint = IF settings.apiKey = NoKey
                                          THEN NoFingerprint ELSE Uuid(1)]
    /\ files = {"a.md", "b.md"}
    /\ frontmatter = [p \in Paths |-> EmptyFm]
    /\ content = <<>>
    /\ nextSlug = 1
    /\ clock = 0
    /\ pub = IdlePub
    /\ unpub = IdleUnpub
    /\ sweep = IdleSweep
    /\ chk = [c \in Callers |-> IdleCaller]
    /\ waitq = [c \in Callers |-> <<>>]
    /\ microtasks = <<>>
    /\ calls = <<>>
    /\ replies = <<>>
    /\ outcome = "none"
    /\ hist = NoHist

\* no operation is in flight
Quiet ==
    /\ pub.pc = "idle" /\ unpub.pc = "idle" /\ sweep.pc = "idle"
    /\ sweep.again.pc = "idle"
    /\ \A c \in Callers : chk[c].pc \in {"idle", "returned"}
    /\ microtasks = <<>>

(* ------------------------- handler bookkeeping ------------------------ *)
Status == [inFlight |-> proCheckInFlight, chk |-> chk, waitq |-> waitq,
           microtasks |-> microtasks]

SetStatus(st) ==
    /\ proCheckInFlight' = st.inFlight
    /\ chk' = st.chk
    /\ waitq' = st.waitq
    /\ microtasks' = st.microtasks

\* When a handler starts, the invocations that have ended leave nothing
\* behind: their locals are gone and the history of the last sweep is reset.
Retired(st) ==
    [st EXCEPT !.chk = [c \in Callers |->
                          IF st.chk[c].pc = "returned" THEN IdleCaller ELSE st.chk[c]]]

Tidy ==
    /\ pub' = IF pub.pc = "idle" THEN IdlePub ELSE pub
    /\ unpub' = IF unpub.pc = "idle" THEN IdleUnpub ELSE unpub
    /\ sweep' = IF sweep.pc = "idle" THEN IdleSweep ELSE sweep
    /\ calls' = IF Quiet THEN <<>> ELSE calls
    /\ replies' = IF Quiet THEN <<>> ELSE replies

Forget == Tidy /\ SetStatus(Retired(Status))

Fresh(h) == [h EXCEPT !.swept = FALSE, !.excluded = "", !.fmFailed = {}]

(* --------------------------- saveSettings ----------------------------- *)
\* a save that runs before the mapping is updated
SaveStale(s, notes, done) == PluginData(s, publishedNotes, done)

SaveSettings(s, notes, done) == PluginData(s, notes, done)

(* ------------------- writeFrontmatter / refresh ----------------------- *)
\* !ttlDays
Falsy(ttlDays) == ttlDays \in {TtlNull, "0"}

\* expiresAt.slice(0, 10)
DatePortion(expiresAt) == IF expiresAt = NoExpiry THEN "" ELSE expiresAt[1]

\* jotbird_expires as writeFrontmatter computes it
ExpiresText(expiresAt, ttlDays) ==
    IF Falsy(ttlDays) THEN Never ELSE DatePortion(expiresAt)

\* a write that does not look at the storeFrontmatter setting
WriteRegardless(fm, store, p, url, expiresAt, ttlDays, fails) ==
    IF fails THEN fm
    ELSE [fm EXCEPT ![p] = [EmptyFm EXCEPT
                              !.jotbird_link = url,
                              !.jotbird_expires = ExpiresText(expiresAt, ttlDays)]]

\* a header write that forgets the keys of earlier versions
WriteKeepsLegacy(fm, store, p, url, expiresAt, ttlDays, fails) ==
    IF ~store \/ fails THEN fm
    ELSE [fm EXCEPT ![p].jotbird_link = url,
                    ![p].jotbird_expires = ExpiresText(expiresAt, ttlDays)]

\* fails: processFrontMatter throws (caught and logged inside)
WriteFrontmatter(fm, store, p, url, expiresAt, ttlDays, fails) ==
    IF ~store \/ fails THEN fm
    ELSE [fm EXCEPT ![p] = [EmptyFm EXCEPT
                              !.jotbird_link = url,
                              !.jotbird_expires = ExpiresText(expiresAt, ttlDays)]]

\* the records refreshProExpiration writes: every tracked path except
\* excludePath whose document exists
RefreshTargets(notes, present, excludePath) ==
    {p \in Keys(notes) : p # excludePath /\ p \in present}

\* a sweep that writes nothing
SkipRefresh(fm, store, notes, present, excludePath, failing) == fm

RefreshProExpiration(fm, store, notes, present, excludePath, failing) ==
    IF ~store THEN fm
    ELSE [p \in Paths |->
            IF p \in RefreshTargets(notes, present, excludePath)
            THEN WriteFrontmatter(fm, store, p, notes[p].url, NoExpiry, "0", p \in failing)[p]
            ELSE fm[p]]

\* the header writes of a sweep that may throw
MayFail(store, notes, present, excludePath) ==
    IF store THEN SUBSET RefreshTargets(notes, present, excludePath) ELSE {{}}

Bump(n) == IF n < SweepCap THEN n + 1 ELSE n

(* ------------------------------ remote -------------------------------- *)
\* the call publishFile issues: publishNote(apiKey, markdown, title, slug) or
\* trialPublish(deviceFingerprint, markdown, title, slug, editToken)
PublishCall(hasApiKey, apiKey, slug, editToken) ==
    IF hasApiKey
    THEN [fn |-> "publishNote", apiKey |-> apiKey, fingerprint |-> Undefined,
          slug |-> slug, editToken |-> Undefined]
    ELSE [fn |-> "trialPublish", apiKey |-> Undefined, fingerprint |-> deviceFingerprint,
          slug |-> slug, editToken |-> editToken]

\* PublishResponse of the service to a create-or-update call: an update keeps
\* the slug, a create gets the next one; the anonymous variant returns the
\* edit token of the document
PublishResponse(call, ttlDays) ==
    LET slug == IF call.slug = Undefined THEN SlugName(nextSlug) ELSE call.slug
    IN [slug |-> slug,
        url |-> UrlOf(slug),
        editToken |-> IF call.fn = "trialPublish" THEN TokenOf(slug) ELSE Undefined,
        expiresAt |-> IF ttlDays = TtlNull THEN NoExpiry ELSE ExpiresAt,
        ttlDays |-> ttlDays]

\* /not found/i.test(e.message)
IsNotFound(err) == err = "Publish: Document not found"
Errors == {"Publish: Document not found", "Publish: Rate limit exceeded"}

(* ----------------------------- publishFile ---------------------------- *)
\* the record publishFile stores on success
PublishedNote(result, now) ==
    [slug |-> result.slug, url |-> result.url, editToken |-> result.editToken,
     publishedAt |-> now]

\* a first call that forgets the record
FirstCallWithoutSlug(hasApiKey, apiKey, existing) ==
    PublishCall(hasApiKey, apiKey, Undefined, Undefined)

\* the first call carries the slug (and, anonymous, the edit token) of the record
FirstCall(hasApiKey, apiKey, existing) ==
    PublishCall(hasApiKey, apiKey, SlugOf(existing), EditTokenOf(existing))

\* a retry that sends the stale slug again
RetryWithSlug(hasApiKey, apiKey, existing) ==
    PublishCall(hasApiKey, apiKey, SlugOf(existing), EditTokenOf(existing))

\* the retry carries neither
RetryCall(hasApiKey, apiKey, existing) ==
    PublishCall(hasApiKey, apiKey, Undefined, Undefined)

\* a catch that retries whatever the error
RetryAnyError(existing, err) == existing # NoNote

\* a catch that retries a create as well
RetryWithoutRecord(existing, err) == IsNotFound(err)

\* the catch around the first call: retry only an update that failed "not found"
ShouldRetry(existing, err) == existing # NoNote /\ IsNotFound(err)

\* the outer catch turns every error into a Notice
PublishFailed(err) == "notice"

\* (existing && !retried) ? "Updated" : "Published"
Verb(existing, retried) == IF existing # NoNote /\ ~retried THEN "Updated" ELSE "Published"

\* a detection that ignores the flag
DetectsAlways(ttlDays, done) == Falsy(ttlDays)

\* !result.ttlDays && !this.proRefreshDone
DetectsUpgrade(ttlDays, done) == Falsy(ttlDays) /\ ~done

\* publishFile up to its first remote call; a failed vault.read ends it
PublishFile(p) ==
    /\ p \in files
    /\ pub.pc = "idle"
    /\ LET hasApiKey == settings.apiKey # NoKey
           existing == Lookup(publishedNotes, p)
           started == [pc |-> "call", path |-> p, hasApiKey |-> hasApiKey,
                       existing |-> existing]
       IN \/ /\ pub' = started
             /\ calls' = <<FirstCall(hasApiKey, settings.apiKey, existing)>>
             /\ outcome' = "none"
          \/ /\ pub' = [started EXCEPT !.pc = "idle"]
             /\ calls' = <<>>
             /\ outcome' = PublishFailed("read")
    /\ replies' = <<>>
    /\ unpub' = IdleUnpub /\ sweep' = IdleSweep
    /\ SetStatus(Retired(Status))
    /\ hist' = Fresh(hist)
    /\ UNCHANGED <<install, plugin, stored, vault, remote>>

\* the remote call in flight succeeds: upsert, save, mirror, detect the tier
PublishResolves ==
    /\ pub.pc \in {"call", "retry"}
    /\ clock < MaxPublishes
    /\ \E ttlDays \in (IF pub.hasApiKey THEN TtlDays ELSE TrialTtlDays),
          fmFails \in (IF settings.storeFrontmatter THEN BOOLEAN ELSE {FALSE}) :
        LET call == calls[Len(calls)]
            result == PublishResponse(call, ttlDays)
            notes == Put(publishedNotes, pub.path, PublishedNote(result, clock + 1))
            \* processFrontMatter throws for a document that was deleted meanwhile
            fm1 == WriteFrontmatter(frontmatter, settings.storeFrontmatter, pub.path,
                                    result.url, result.expiresAt, result.ttlDays,
                                    fmFails \/ pub.path \notin files)
            detect == DetectsUpgrade(result.ttlDays, proRefreshDone)
        IN /\ call.slug = Undefined => nextSlug <= MaxSlugs
           /\ publishedNotes' = notes
           /\ stored' = SaveSettings(settings, notes, proRefreshDone)
           /\ proRefreshDone' = (proRefreshDone \/ detect)
           /\ \E failing \in (IF detect
                              THEN MayFail(settings.storeFrontmatter, notes, files, pub.path)
                              ELSE {{}}) :
                /\ frontmatter' =
                     IF detect
                     THEN RefreshProExpiration(fm1, settings.storeFrontmatter, notes, files,
                                               pub.path, failing)
                     ELSE fm1
                /\ hist' = [hist EXCEPT
                              !.tracked = @ \cup {pub.path},
                              !.sweeps = IF detect THEN Bump(@) ELSE @,
                              !.pubSweeps = IF detect THEN Bump(@) ELSE @,
                              !.everSwept = @ \/ detect,
                              !.swept = detect,
                              !.excluded = pub.path,
                              !.fmFailed = failing \cup (IF fmFails THEN {pub.path} ELSE {}),
                              !.anon = LET live == IF pub.pc = "retry"
                                                   THEN @ \ {pub.existing.slug} ELSE @
                                       IN IF call.fn = "trialPublish"
                                          THEN live \cup {result.slug}
                                          ELSE live \ {result.slug}]
           /\ nextSlug' = IF call.slug = Undefined THEN nextSlug + 1 ELSE nextSlug
           /\ clock' = clock + 1
           /\ replies' = Append(replies, result)
    /\ pub' = [pub EXCEPT !.pc = "idle"]
    /\ outcome' = Verb(pub.existing, pub.pc = "retry")
    /\ UNCHANGED <<content, install, settings, isPro, files, unpub, sweep, status, calls>>

\* the remote call in flight fails: one retry as a fresh create, else a Notice
PublishRejects ==
    /\ pub.pc \in {"call", "retry"}
    /\ \E err \in Errors :
        /\ replies' = Append(replies, Failure(err))
        /\ IF pub.pc = "call" /\ ShouldRetry(pub.existing, err)
           THEN /\ pub' = [pub EXCEPT !.pc = "retry"]
                /\ calls' = Append(calls, RetryCall(pub.hasApiKey, settings.apiKey,
                                                    pub.existing))
                /\ outcome' = "none"
           ELSE /\ pub' = [pub EXCEPT !.pc = "idle"]
                /\ calls' = calls
                /\ outcome' = PublishFailed(err)
    /\ UNCHANGED <<install, plugin, stored, vault, remote, unpub, sweep, status, hist>>

(* ------------------------- vault notifications ------------------------ *)
\* a rename handler that builds the moved record anew and loses its edit token
RenameDropsToken(notes, oldPath, newPath) ==
    IF oldPath \in Keys(notes)
    THEN Remove(Put(notes, newPath, [notes[oldPath] EXCEPT !.editToken = Undefined]), oldPath)
    ELSE notes

\* a rename handler that copies the record
CopyOnRename(notes, oldPath, newPath) ==
    IF oldPath \in Keys(notes) THEN Put(notes, newPath, notes[oldPath]) ELSE notes

\* vault.on("rename"): move the record from the old key to the new one
OnRename(notes, oldPath, newPath) ==
    IF oldPath \in Keys(notes)
    THEN Remove(Put(notes, newPath, notes[oldPath]), oldPath)
    ELSE notes

\* a delete handler that empties the mapping
DeleteEvery(notes, p) == IF p \in Keys(notes) THEN NoNotes ELSE notes

\* vault.on("delete"): drop the record of the path
OnDelete(notes, p) == IF p \in Keys(notes) THEN Remove(notes, p) ELSE notes

\* both handlers save exactly when they changed the mapping
SaveIfChanged(notes) ==
    IF notes # publishedNotes THEN SaveSettings(settings, notes, proRefreshDone) ELSE stored

\* file.path of the TFile an invocation holds: the vault updates it when the
\* document is renamed (the rename handler reads the new path from it)
Following(invocation, oldPath, newPath) ==
    IF invocation.path = oldPath THEN [invocation EXCEPT !.path = newPath] ELSE invocation

\* the user renames a document; the header moves with it
RenameFile(oldPath, newPath) ==
    /\ oldPath \in files /\ newPath \in Paths \ files
    /\ files' = (files \ {oldPath}) \cup {newPath}
    /\ frontmatter' = [frontmatter EXCEPT ![newPath] = frontmatter[oldPath],
                                          ![oldPath] = EmptyFm]
    /\ publishedNotes' = OnRename(publishedNotes, oldPath, newPath)
    /\ stored' = SaveIfChanged(publishedNotes')
    /\ hist' = [Fresh(hist) EXCEPT !.tracked =
                    IF oldPath \in @ THEN (@ \ {oldPath}) \cup {newPath} ELSE @ \ {newPath}]
    /\ outcome' = "renamed"
    /\ pub' = Following(IF pub.pc = "idle" THEN IdlePub ELSE pub, oldPath, newPath)
    /\ unpub' = Following(IF unpub.pc = "idle" THEN IdleUnpub ELSE unpub, oldPath, newPath)
    /\ sweep' = IF sweep.pc = "idle" THEN IdleSweep ELSE sweep
    /\ calls' = IF Quiet THEN <<>> ELSE calls
    /\ replies' = IF Quiet THEN <<>> ELSE replies
    /\ SetStatus(Retired(Status))
    /\ UNCHANGED <<content, install, settings, isPro, proRefreshDone, remote>>

\* the user deletes a document
DeleteFile(p) ==
    /\ p \in files
    /\ files' = files \ {p}
    /\ frontmatter' = [frontmatter EXCEPT ![p] = EmptyFm]
    /\ publishedNotes' = OnDelete(publishedNotes, p)
    /\ stored' = SaveIfChanged(publishedNotes')
    /\ hist' = [Fresh(hist) EXCEPT !.tracked = @ \ {p}]
    /\ outcome' = "deleted"
    /\ Forget
    /\ UNCHANGED <<content, install, settings, isPro, proRefreshDone, remote>>

\* the user creates a document (no handler is registered for it)
CreateFile(p) ==
    /\ p \in Paths \ files
    /\ files' = files \cup {p}
    /\ outcome' = "created"
    /\ hist' = Fresh(hist)
    /\ Forget
    /\ UNCHANGED <<content, install, plugin, stored, frontmatter, remote>>

(* ---------------------------- unpublishNote --------------------------- *)
\* a delete that picks the variant by the record's edit token
DeleteCallByToken(apiKey, published) ==
    IF published.editToken = Undefined
    THEN [fn |-> "deleteDocument", apiKey |-> apiKey, fingerprint |-> Undefined,
          slug |-> published.slug, editToken |-> Undefined]
    ELSE [fn |-> "trialDeleteDocument", apiKey |-> Undefined,
          fingerprint |-> deviceFingerprint, slug |-> published.slug,
          editToken |-> published.editToken]

\* deleteDocument(apiKey, slug) or trialDeleteDocument(slug, editToken ?? "", fingerprint)
DeleteCall(apiKey, published) ==
    IF apiKey # NoKey
    THEN [fn |-> "deleteDocument", apiKey |-> apiKey, fingerprint |-> Undefined,
          slug |-> published.slug, editToken |-> Undefined]
    ELSE [fn |-> "trialDeleteDocument", apiKey |-> Undefined,
          fingerprint |-> deviceFingerprint, slug |-> published.slug,
          editToken |-> IF published.editToken = Undefined THEN "" ELSE published.editToken]

\* a clear that forgets the keys of earlier versions
ClearCurrentKeys(fm, store, p, fails) ==
    IF ~store \/ fails THEN fm
    ELSE [fm EXCEPT ![p].jotbird_link = <<>>, ![p].jotbird_expires = Undefined]

\* delete fm[...] for the current and the legacy keys
ClearFrontmatter(fm, store, p, fails) ==
    IF ~store \/ fails THEN fm ELSE [fm EXCEPT ![p] = EmptyFm]

\* unpublishNote up to the confirmation dialog
UnpublishNote(p) ==
    /\ p \in files
    /\ unpub.pc = "idle"
    /\ LET published == Lookup(publishedNotes, p)
       IN unpub' = [pc |-> IF published = NoNote THEN "idle" ELSE "confirm",
                    path |-> p, published |-> published]
          /\ outcome' = IF published = NoNote THEN "notice" ELSE "none"
    /\ calls' = <<>>
    /\ replies' = <<>>
    /\ pub' = IdlePub /\ sweep' = IdleSweep
    /\ SetStatus(Retired(Status))
    /\ hist' = Fresh(hist)
    /\ UNCHANGED <<install, plugin, stored, vault, remote>>

\* the user closes the dialog without confirming
UnpublishDismissed ==
    /\ unpub.pc = "confirm"
    /\ unpub' = [unpub EXCEPT !.pc = "idle"]
    /\ outcome' = "dismissed"
    /\ UNCHANGED <<install, plugin, stored, vault, remote, pub, sweep, status, io, hist>>

\* the user confirms: the delete call is issued
UnpublishConfirmed ==
    /\ unpub.pc = "confirm"
    /\ unpub' = [unpub EXCEPT !.pc = "deleting"]
    /\ calls' = <<DeleteCall(settings.apiKey, unpub.published)>>
    /\ UNCHANGED <<install, plugin, stored, vault, remote, pub, sweep, status, replies, outcome, hist>>

\* the delete call succeeds: drop the record, save, clear the header
DeleteResolves ==
    /\ unpub.pc = "deleting"
    /\ \E fmFails \in (IF settings.storeFrontmatter THEN BOOLEAN ELSE {FALSE}) :
        /\ publishedNotes' = OnDelete(publishedNotes, unpub.path)
        /\ stored' = SaveSettings(settings, publishedNotes', proRefreshDone)
        /\ frontmatter' = ClearFrontmatter(frontmatter, settings.storeFrontmatter,
                                           unpub.path, fmFails)
        /\ hist' = [hist EXCEPT !.tracked = @ \ {unpub.path},
                                !.fmFailed = IF fmFails THEN {unpub.path} ELSE {},
                                !.anon = @ \ {unpub.published.slug}]
    /\ replies' = Append(replies, [ok |-> TRUE])
    /\ unpub' = [unpub EXCEPT !.pc = "idle"]
    /\ outcome' = "unpublished"
    /\ UNCHANGED <<content, install, settings, isPro, proRefreshDone, files, remote, pub, sweep, status, calls>>

\* a failed delete that takes "not found" for "already deleted"
DeleteRejectsForgetting ==
    /\ unpub.pc = "deleting"
    /\ \E err \in {"Delete: Document not found", "Delete: Rate limit exceeded"} :
        /\ replies' = Append(replies, Failure(err))
        /\ publishedNotes' = IF err = "Delete: Document not found"
                              THEN OnDelete(publishedNotes, unpub.path)
                              ELSE publishedNotes
    /\ stored' = SaveSettings(settings, publishedNotes', proRefreshDone)
    /\ unpub' = [unpub EXCEPT !.pc = "idle"]
    /\ outcome' = "notice"
    /\ UNCHANGED <<install, settings, isPro, proRefreshDone, vault, remote, pub, sweep, status, calls, hist>>

\* the delete call fails: a Notice, nothing else
DeleteRejects ==
    /\ unpub.pc = "deleting"
    /\ \E err \in {"Delete: Document not found", "Delete: Rate limit exceeded"} :
        replies' = Append(replies, Failure(err))
    /\ unpub' = [unpub EXCEPT !.pc = "idle"]
    /\ outcome' = "notice"
    /\ UNCHANGED <<install, plugin, stored, vault, remote, pub, sweep, status, calls, hist>>

(* ----------------------- claimAnonymousDocuments ---------------------- *)
\* the entries the sweep will claim: the records that carry an edit token
ToClaim(notes) == {p \in Keys(notes) : notes[p].editToken # Undefined}

ClaimCall(apiKey, note) ==
    [fn |-> "claimDocument", apiKey |-> apiKey, slug |-> note.slug,
     editToken |-> note.editToken]

\* the record a successful claim leaves: the server's slug and url, no edit token
ClaimedNote(result, note) ==
    [slug |-> result.slug, url |-> result.url, editToken |-> Undefined,
     publishedAt |-> note.publishedAt]

\* ClaimResponse of the service: the slug is kept or replaced by a new one
ClaimResponse(slug, ttlDays) ==
    [slug |-> slug, url |-> UrlOf(slug),
     expiresAt |-> IF ttlDays = TtlNull THEN NoExpiry ELSE ExpiresAt, ttlDays |-> ttlDays]

\* a sweep that stops at the first failed claim
AbortSweep(rest) == {}

\* the entries left once the claim of one of them has failed
AfterFailedClaim(rest) == rest

\* the sweep's loop: the next claim call, or the end of the sweep (which
\* saves when something was claimed)
SweepAdvance(sw, notes) ==
    IF sw.rest = {}
    THEN /\ sweep' = [sw EXCEPT !.pc = "idle"]
         /\ stored' = IF sw.claimed > 0
                      THEN SaveSettings(settings, notes, proRefreshDone) ELSE stored
         /\ calls' = calls
         /\ outcome' = "swept"
    ELSE \E p \in sw.rest :
         /\ sweep' = [sw EXCEPT !.pc = "claiming", !.order = Append(@, p), !.rest = @ \ {p}]
         /\ stored' = stored
         /\ calls' = Append(calls, ClaimCall(settings.apiKey, sw.start[p]))
         /\ outcome' = "none"

\* claimAnonymousDocuments up to its first claim call
ClaimAnonymousDocuments(apiKey) ==
    /\ sweep.pc = "idle"
    /\ replies' = <<>>
    /\ IF apiKey = NoKey \/ ToClaim(publishedNotes) = {}
       THEN /\ sweep' = [IdleSweep EXCEPT !.start = publishedNotes]
            /\ calls' = <<>>
            /\ outcome' = "swept"
       ELSE \E p \in ToClaim(publishedNotes) :
            /\ sweep' = [pc |-> "claiming", start |-> publishedNotes,
                         rest |-> ToClaim(publishedNotes) \ {p}, order |-> <<p>>,
                         claimed |-> 0, again |-> IdleAgain]
            /\ calls' = <<ClaimCall(apiKey, publishedNotes[p])>>
            /\ outcome' = "none"

\* the claim call in flight succeeds: replace the record, mirror the header
ClaimResolves ==
    /\ sweep.pc = "claiming"
    /\ \E fresh \in BOOLEAN, ttlDays \in TtlDays,
          fmFails \in (IF settings.storeFrontmatter THEN BOOLEAN ELSE {FALSE}) :
        LET p == sweep.order[Len(sweep.order)]
            note == sweep.start[p]
            result == ClaimResponse(IF fresh THEN SlugName(nextSlug) ELSE note.slug, ttlDays)
            notes == Put(publishedNotes, p, ClaimedNote(result, note))
        IN /\ fresh => nextSlug <= MaxSlugs
           /\ nextSlug' = IF fresh THEN nextSlug + 1 ELSE nextSlug
           /\ publishedNotes' = notes
           /\ frontmatter' =
                IF p \in files
                THEN WriteFrontmatter(frontmatter, settings.storeFrontmatter, p,
                                      result.url, result.expiresAt, result.ttlDays, fmFails)
                ELSE frontmatter
           /\ replies' = Append(replies, result)
           /\ hist' = [hist EXCEPT !.anon = @ \ {note.slug, result.slug}]
           /\ SweepAdvance([sweep EXCEPT !.claimed = @ + 1], notes)
    /\ UNCHANGED <<content, install, settings, isPro, proRefreshDone, files, clock, pub, unpub, status>>

\* the claim call in flight fails: the record is skipped
ClaimRejects ==
    /\ sweep.pc = "claiming"
    /\ \E err \in {"Claim: Document not found", "Claim: Rate limit exceeded"} :
        replies' = Append(replies, Failure(err))
    /\ SweepAdvance([sweep EXCEPT !.rest = AfterFailedClaim(@)], publishedNotes)
    /\ UNCHANGED <<install, plugin, vault, remote, pub, unpub, status, hist>>


(* ------------------ a second sweep beside the first ------------------- *)
\* the loop of the second invocation
AgainAdvance(sw, notes) ==
    IF sw.rest = {}
    THEN /\ sweep' = [sweep EXCEPT !.again = [sw EXCEPT !.pc = "idle"]]
         /\ stored' = IF sw.claimed > 0
                      THEN SaveSettings(settings, notes, proRefreshDone) ELSE stored
         /\ calls' = calls
         /\ outcome' = "swept"
    ELSE \E p \in sw.rest :
         /\ sweep' = [sweep EXCEPT !.again = [sw EXCEPT !.pc = "claiming",
                                                        !.order = Append(@, p),
                                                        !.rest = @ \ {p}]]
         /\ stored' = stored
         /\ calls' = Append(calls, ClaimCall(settings.apiKey, sw.start[p]))
         /\ outcome' = "none"

\* claimAnonymousDocuments called while an earlier invocation awaits a claim:
\* nothing in it looks at the earlier one
ClaimAnonymousDocumentsAgain(apiKey) ==
    /\ sweep.pc = "claiming" /\ sweep.again.pc = "idle"
    /\ replies' = replies
    /\ IF apiKey = NoKey \/ ToClaim(publishedNotes) = {}
       THEN /\ sweep' = [sweep EXCEPT !.again = [IdleAgain EXCEPT !.start = publishedNotes]]
            /\ calls' = calls
            /\ outcome' = "swept"
       ELSE \E p \in ToClaim(publishedNotes) :
            /\ sweep' = [sweep EXCEPT !.again =
                            [pc |-> "claiming", start |-> publishedNotes,
                             rest |-> ToClaim(publishedNotes) \ {p}, order |-> <<p>>,
                             claimed |-> 0]]
            /\ calls' = Append(calls, ClaimCall(apiKey, publishedNotes[p]))
            /\ outcome' = "none"

\* the claim call of the second invocation succeeds
ClaimAgainResolves ==
    /\ sweep.again.pc = "claiming"
    /\ \E fresh \in BOOLEAN, ttlDays \in TtlDays,
          fmFails \in (IF settings.storeFrontmatter THEN BOOLEAN ELSE {FALSE}) :
        LET p == sweep.again.order[Len(sweep.again.order)]
            note == sweep.again.start[p]
            result == ClaimResponse(IF fresh THEN SlugName(nextSlug) ELSE note.slug, ttlDays)
            notes == Put(publishedNotes, p, ClaimedNote(result, note))
        IN /\ fresh => nextSlug <= MaxSlugs
           /\ nextSlug' = IF fresh THEN nextSlug + 1 ELSE nextSlug
           /\ publishedNotes' = notes
           /\ frontmatter' =
                IF p \in files
                THEN WriteFrontmatter(frontmatter, settings.storeFrontmatter, p,
                                      result.url, result.expiresAt, result.ttlDays, fmFails)
                ELSE frontmatter
           /\ replies' = Append(replies, result)
           /\ hist' = [hist EXCEPT !.anon = @ \ {note.slug, result.slug}]
           /\ AgainAdvance([sweep.again EXCEPT !.claimed = @ + 1], notes)
    /\ UNCHANGED <<content, install, settings, isPro, proRefreshDone, files, clock, pub, unpub, status>>

\* the claim call of the second invocation fails
ClaimAgainRejects ==
    /\ sweep.again.pc = "claiming"
    /\ \E err \in {"Claim: Document not found", "Claim: Rate limit exceeded"} :
        replies' = Append(replies, Failure(err))
    /\ AgainAdvance([sweep.again EXCEPT !.rest = AfterFailedClaim(@)], publishedNotes)
    /\ UNCHANGED <<install, plugin, vault, remote, pub, unpub, status, hist>>
(* ---------------------------- checkProStatus -------------------------- *)
\* the promise of caller d's check has settled
Settled(st, d) == st.chk[d].pc # "calling"

\* await this.proCheckInFlight inside the loop: caller c waits for the
\* promise of the caller that created the in-flight check
AwaitInFlight(st, c) ==
    LET d == st.inFlight
        st1 == [st EXCEPT !.chk[c].pc = "waiting", !.chk[c].waited = TRUE,
                          !.chk[c].awaitedOwn = FALSE]
    IN IF Settled(st, d)
       THEN [st1 EXCEPT !.microtasks = Append(@, c)]
       ELSE [st1 EXCEPT !.waitq[d] = Append(@, c)]

\* this.proCheckInFlight = (async () => { ... listDocuments ... })() and
\* the await of it: caller c issues its own call
IssueCheck(st, c) ==
    [st EXCEPT !.inFlight = c,
               !.chk[c].pc = "calling",
               !.chk[c].own = TRUE,
               !.chk[c].awaitedOwn = TRUE,
               !.waitq[c] = <<c>>]

\* a waiter that goes on without testing the handle again
IfInFlight(st, c) ==
    IF st.inFlight # NoCheck /\ st.chk[c].pc # "waiting"
    THEN AwaitInFlight(st, c) ELSE IssueCheck(st, c)

\* while (this.proCheckInFlight) { await ... } then the fresh check
WhileInFlight(st, c) ==
    IF st.inFlight # NoCheck THEN AwaitInFlight(st, c) ELSE IssueCheck(st, c)

\* checkProStatus has returned to its caller: handleProUpgrade goes on in
\* a later microtask, the other callers do not wait for it
Return(st, c) ==
    IF st.chk[c].kind = "upgrade"
    THEN [st EXCEPT !.chk[c].pc = "done", !.microtasks = Append(@, c)]
    ELSE [st EXCEPT !.chk[c].pc = "returned"]

\* checkProStatus from its call to its first await
CheckProStatus(st, c, kind, apiKey) ==
    LET st1 == [st EXCEPT !.chk[c] = [IdleCaller EXCEPT !.kind = kind,
                                                        !.hadKey = (apiKey # NoKey)]]
    IN IF apiKey = NoKey THEN Return(st1, c) ELSE WhileInFlight(st1, c)

\* a caller whose invocation has returned may call again
IdleCallers == {c \in Callers : chk[c].pc \in {"idle", "returned"}}
FreeCaller == CHOOSE c \in IdleCallers : \A d \in IdleCallers : c <= d

\* a finally block that leaves the handle in place
KeepInFlight(st) == st

\* finally { this.proCheckInFlight = null }
ClearInFlight(st) == [st EXCEPT !.inFlight = NoCheck]

\* a catch that takes a failed call for a downgrade
ResetOnError(res, was) == res = "pro"

\* this.isPro = !!result.isPro, or the catch that ignores the failure
ApplyListResult(res, was) == IF res = "error" THEN was ELSE (res = "pro")

\* the listDocuments call of caller c settles; the promise is fulfilled
\* either way and the continuations waiting for it are queued in order
ListDocumentsSettles(c) ==
    /\ chk[c].pc = "calling"
    /\ \E res \in {"pro", "free", "error"} :
        /\ isPro' = ApplyListResult(res, isPro)
        /\ chk' = [chk EXCEPT ![c].pc = "settled", ![c].failed = (res = "error")]
    /\ microtasks' = microtasks \o waitq[c]
    /\ waitq' = [waitq EXCEPT ![c] = <<>>]
    /\ UNCHANGED <<install, settings, publishedNotes, proRefreshDone, proCheckInFlight,
                   stored, vault, remote, pub, unpub, sweep, io, outcome, hist>>

\* the creator's continuation after await this.proCheckInFlight
CheckFinally(c) ==
    /\ microtasks # <<>> /\ Head(microtasks) = c
    /\ chk[c].pc = "settled"
    /\ SetStatus(Return(ClearInFlight([Status EXCEPT !.microtasks = Tail(@)]), c))
    /\ UNCHANGED <<install, plugin, stored, vault, remote, pub, unpub, sweep, io, outcome, hist>>

\* a waiting caller's continuation: the loop test again
CheckResumes(c) ==
    /\ microtasks # <<>> /\ Head(microtasks) = c
    /\ chk[c].pc = "waiting"
    /\ SetStatus(WhileInFlight([Status EXCEPT !.microtasks = Tail(@)], c))
    /\ UNCHANGED <<install, plugin, stored, vault, remote, pub, unpub, sweep, io, outcome, hist>>

\* handleProUpgrade after its await of checkProStatus
HandleProUpgradeResumes(c) ==
    /\ microtasks # <<>> /\ Head(microtasks) = c
    /\ chk[c].pc = "done"
    /\ chk' = [chk EXCEPT ![c].pc = "returned"]
    /\ microtasks' = Tail(microtasks)
    /\ IF isPro
       THEN /\ proRefreshDone' = TRUE
            /\ \E failing \in MayFail(settings.storeFrontmatter, publishedNotes, files, "") :
                 /\ frontmatter' = RefreshProExpiration(frontmatter,
                                      settings.storeFrontmatter, publishedNotes, files, "",
                                      failing)
                 /\ hist' = [hist EXCEPT !.sweeps = Bump(@), !.everSwept = TRUE,
                                         !.swept = TRUE, !.excluded = "",
                                         !.fmFailed = failing]
            /\ outcome' = "upgraded"
       ELSE /\ UNCHANGED <<proRefreshDone, frontmatter, hist>>
            /\ outcome' = "notice"
    /\ UNCHANGED <<content, install, settings, publishedNotes, isPro, proCheckInFlight, waitq,
                   stored, files, remote, pub, unpub, sweep, io>>

(* -------------------------- protocol handler -------------------------- *)
\* a test that accepts whatever token is present
AnyToken(token) == token # Undefined

\* p.token && p.token.startsWith("jb_")
ValidToken(token) == token = ValidKey
Tokens == {Undefined, "bad_token", ValidKey}

\* obsidian://jotbird?token=...&upgraded=...
ProtocolHandler(token, upgraded) ==
    /\ IdleCallers # {}
    /\ IF ValidToken(token)
       THEN /\ settings' = [settings EXCEPT !.apiKey = token]
            /\ stored' = SaveSettings(settings', publishedNotes, proRefreshDone)
            /\ SetStatus(CheckProStatus(Retired(Status), FreeCaller, "plain", token))
            /\ ClaimAnonymousDocuments(token)
       ELSE IF upgraded = "1"
       THEN /\ SetStatus(CheckProStatus(Retired(Status), FreeCaller, "upgrade",
                                         settings.apiKey))
            /\ calls' = <<>>
            /\ replies' = <<>>
            /\ sweep' = IdleSweep
            /\ outcome' = "none"
            /\ UNCHANGED <<settings, stored>>
       ELSE /\ calls' = <<>>
            /\ replies' = <<>>
            /\ sweep' = IdleSweep
            /\ SetStatus(Retired(Status))
            /\ outcome' = "invalid"
            /\ UNCHANGED <<settings, stored>>
    /\ pub' = IdlePub /\ unpub' = IdleUnpub
    /\ hist' = Fresh(hist)
    /\ UNCHANGED <<install, publishedNotes, isPro, proRefreshDone, vault, remote>>

\* a valid token delivered again while the claim sweep that the first
\* delivery started is awaiting a claim
ProtocolHandlerAgain(token) ==
    /\ ValidToken(token)
    /\ IdleCallers # {}
    /\ settings' = [settings EXCEPT !.apiKey = token]
    /\ stored' = SaveSettings(settings', publishedNotes, proRefreshDone)
    /\ SetStatus(CheckProStatus(Retired(Status), FreeCaller, "plain", token))
    /\ ClaimAnonymousDocumentsAgain(token)
    /\ UNCHANGED <<install, publishedNotes, isPro, proRefreshDone, vault, remote, pub, unpub,
                   hist>>

(* ----------------------------- settings tab --------------------------- *)
\* the Disconnect button
Disconnect ==
    /\ settings.apiKey # NoKey
    /\ settings' = [settings EXCEPT !.apiKey = NoKey]
    /\ isPro' = FALSE
    /\ proRefreshDone' = FALSE
    /\ stored' = SaveSettings(settings', publishedNotes, FALSE)
    /\ outcome' = "disconnected"
    /\ hist' = [Fresh(hist) EXCEPT !.pubSweeps = 0]
    /\ Tidy
    /\ UNCHANGED <<install, publishedNotes, vault, remote, status>>

\* the API key text field, shown while no key is set
SetApiKey(value) ==
    /\ settings.apiKey = NoKey
    /\ settings' = [settings EXCEPT !.apiKey = value]
    /\ stored' = SaveSettings(settings', publishedNotes, proRefreshDone)
    /\ outcome' = "connected"
    /\ hist' = Fresh(hist)
    /\ Tidy
    /\ UNCHANGED <<install, publishedNotes, isPro, proRefreshDone, vault, remote, status>>

\* the "Store frontmatter" toggle
SetStoreFrontmatter(value) ==
    /\ settings.storeFrontmatter # value
    /\ settings' = [settings EXCEPT !.storeFrontmatter = value]
    /\ stored' = SaveSettings(settings', publishedNotes, proRefreshDone)
    /\ outcome' = "toggled"
    /\ hist' = Fresh(hist)
    /\ Forget
    /\ UNCHANGED <<install, publishedNotes, isPro, proRefreshDone, vault, remote>>

(* ------------------------------- onload ------------------------------- *)
\* fm?.["jotbird_link"] ?? fm?.["jotbird_url"]
LinkOf(fm) == IF fm.jotbird_link # <<>> THEN fm.jotbird_link ELSE fm.jotbird_url

\* new URL(link) does not throw: the text starts with a scheme and host
ParsesAsUrl(link) == link # <<>> /\ link[1] = Origin

\* new URL(link).pathname.split("/").pop(): "" for a path that is empty or
\* ends with a slash
SlugFromLink(link) == IF Len(link) = 1 THEN "" ELSE link[Len(link)]

\* fm?.["jotbird_published"] ?? ""; publishedAt 0 stands for the ""
PublishedAtOf(fm) == IF fm.jotbird_published = <<>> THEN 0 ELSE fm.jotbird_published[1]

\* the documents reconcileFrontmatter adds a record for
Reconcilable(notes, present, fm) ==
    {p \in present : /\ p \notin Keys(notes)
                     /\ LinkOf(fm[p]) # <<>>
                     /\ ParsesAsUrl(LinkOf(fm[p]))
                     /\ SlugFromLink(LinkOf(fm[p])) # ""}

\* a reconciliation that trusts the header more than the record
ReconcilePrefersHeader(notes, store, present, fm) ==
    IF ~store THEN notes
    ELSE [p \in Keys(notes) \cup Reconcilable(NoNotes, present, fm) |->
            IF p \in Reconcilable(NoNotes, present, fm)
            THEN [slug |-> SlugFromLink(LinkOf(fm[p])), url |-> LinkOf(fm[p]),
                  editToken |-> Undefined, publishedAt |-> PublishedAtOf(fm[p])]
            ELSE notes[p]]

ReconcileFrontmatter(notes, store, present, fm) ==
    IF ~store THEN notes
    ELSE [p \in Keys(notes) \cup Reconcilable(notes, present, fm) |->
            IF p \in Keys(notes) THEN notes[p]
            ELSE [slug |-> SlugFromLink(LinkOf(fm[p])), url |-> LinkOf(fm[p]),
                  editToken |-> Undefined, publishedAt |-> PublishedAtOf(fm[p])]]

\* headers a document may carry that this run did not write: one of an
\* earlier version, a link that is no url, a link whose path ends with a
\* slash, a link with a longer path beside a legacy one
Headers ==
    {LegacyFm("old"),
     [EmptyFm EXCEPT !.jotbird_link = <<"share.jotbird.com/x">>],
     [EmptyFm EXCEPT !.jotbird_link = <<Origin, "x", "">>],
     [EmptyFm EXCEPT !.jotbird_link = <<Origin, "p", "x">>, !.jotbird_url = UrlOf("old")]}

\* the user edits the header of a document (or a sync brings the document in)
EditHeader(p, fm) ==
    /\ p \in files
    /\ frontmatter[p] # fm
    /\ frontmatter' = [frontmatter EXCEPT ![p] = fm]
    /\ outcome' = "edited"
    /\ hist' = Fresh(hist)
    /\ Forget
    /\ UNCHANGED <<content, install, plugin, stored, files, remote>>

\* ttlDays: number | null of a response
ResponseTtl == {TtlNull, "0", "30", "90"}

\* writeFrontmatter(file, result.url, result.expiresAt ?? "", result.ttlDays)
\* at the end of a publish or a claim, for any response of the service
WriteHeader(p, slug, expiresAt, ttlDays) ==
    /\ p \in files
    /\ \E fails \in (IF settings.storeFrontmatter THEN BOOLEAN ELSE {FALSE}) :
        /\ frontmatter' = WriteFrontmatter(frontmatter, settings.storeFrontmatter, p,
                                           UrlOf(slug), expiresAt, ttlDays, fails)
        /\ hist' = [Fresh(hist) EXCEPT !.fmFailed = IF fails THEN {p} ELSE {}]
    /\ replies' = <<[slug |-> slug, url |-> UrlOf(slug), expiresAt |-> expiresAt,
                     ttlDays |-> ttlDays]>>
    /\ calls' = <<>>
    /\ pub' = [IdlePub EXCEPT !.path = p]
    /\ unpub' = IdleUnpub /\ sweep' = IdleSweep
    /\ SetStatus(Retired(Status))
    /\ outcome' = "written"
    /\ UNCHANGED <<content, install, plugin, stored, files, remote>>

FreshStatus == [inFlight |-> NoCheck, chk |-> [c \in Callers |-> IdleCaller],
                waitq |-> [c \in Callers |-> <<>>], microtasks |-> <<>>]

\* the plugin is (re)started: loadSettings, reconcileFrontmatter once the
\* layout is ready, and a background checkProStatus
\* data.deviceFingerprint || crypto.randomUUID()
LoadFingerprint ==
    IF stored.deviceFingerprint # NoFingerprint
    THEN /\ deviceFingerprint' = stored.deviceFingerprint
         /\ nextUuid' = nextUuid
    ELSE /\ nextUuid <= MaxUuids
         /\ deviceFingerprint' = Uuid(nextUuid)
         /\ nextUuid' = nextUuid + 1

Onload ==
    /\ settings' = stored.settings
    /\ LoadFingerprint
    /\ publishedNotes' = ReconcileFrontmatter(stored.publishedNotes,
                            stored.settings.storeFrontmatter, files, frontmatter)
    /\ proRefreshDone' = stored.proRefreshDone
    /\ isPro' = FALSE
    /\ stored' = IF publishedNotes' # stored.publishedNotes
                 THEN [SaveSettings(settings', publishedNotes', proRefreshDone') EXCEPT
                         !.deviceFingerprint = deviceFingerprint']
                 ELSE stored
    /\ SetStatus(CheckProStatus(FreshStatus, 1, "plain", settings'.apiKey))
    /\ pub' = IdlePub /\ unpub' = IdleUnpub /\ sweep' = IdleSweep
    /\ calls' = <<>>
    /\ replies' = <<>>
    /\ outcome' = "loaded"
    /\ hist' = [hist EXCEPT !.sweeps = 0, !.pubSweeps = 0, !.swept = FALSE,
                            !.excluded = "", !.fmFailed = {}]
    /\ UNCHANGED <<vault, remote>>

\* checkProStatus called on its own
InvokeCheckProStatus ==
    /\ IdleCallers # {}
    /\ SetStatus(CheckProStatus(Status, FreeCaller, "plain", settings.apiKey))
    /\ UNCHANGED <<install, plugin, stored, vault, remote, pub, unpub, sweep, io, outcome, hist>>


\* ---------------------------------------------------------------------------
\* The remote operations of api.ts: what a response becomes for the caller.
\* Texts are sequences of pieces, so that a message is the concatenation of
\* its label, the separator and the error text.

\* the exported operations and the context label each hands to assertOk
Context ==
    [publishNote |-> "Publish", trialPublish |-> "Publish",
     listDocuments |-> "List documents",
     deleteDocument |-> "Delete", trialDeleteDocument |-> "Delete",
     claimDocument |-> "Claim",
     getPortalUrl |-> "Manage subscription",
     uploadImage |-> "Image upload"]

\* a parsed body: its JSON type, the keys of an object, and the values of
\* the two keys the code reads
Json(type, keys, error, url) == [type |-> type, keys |-> keys, error |-> error, url |-> url]

\* what requestUrl resolves to with throw: false: a body that parses as
\* JSON, or one that does not and whose text is all there is
Responses ==
    LET Statuses == {200, 399, 400, 404, 500}
        Values == {Json("null", {}, <<>>, <<>>),
                   Json("string", {}, <<>>, <<>>),
                   Json("object", {"ok"}, <<>>, <<>>),
                   Json("object", {"error"}, <<"Invalid or expired API key">>, <<>>),
                   Json("object", {"error"}, <<>>, <<>>),
                   Json("object", {"url"}, <<>>, <<"https://billing.stripe.com/session">>),
                   Json("object", {"url"}, <<>>, <<>>)}
    IN  {[status |-> s, valid |-> TRUE, json |-> j, text |-> <<>>] :
            s \in Statuses, j \in Values}
        \cup {[status |-> s, valid |-> FALSE, json |-> Json("null", {}, <<>>, <<>>), text |-> t] :
            s \in Statuses, t \in {<<>>, <<"Not found">>}}

RequestFailed(code) == <<"Request failed with status ", code>>

ApiRequest(response) ==
    [status |-> response.status,
     json |-> IF response.valid THEN response.json
              ELSE Json("object", {"error"},
                        IF response.text # <<>> THEN response.text
                        ELSE RequestFailed(response.status), <<>>)]

\* the message assertOk throws; none when it returns
AssertOk(code, json, context) ==
    IF code >= 400
    THEN <<context, ": ">> \o
         (IF json.type = "object" /\ "error" \in json.keys
          THEN json.error ELSE RequestFailed(code))
    ELSE <<>>

\* what the caller of an operation gets for a response: the value returned,
\* or the message of the error thrown
ApiResult(op, response) ==
    LET r == ApiRequest(response)
        thrown == AssertOk(r.status, r.json, Context[op])
        Raise(message) == [ok |-> FALSE, message |-> message, value |-> Json("null", {}, <<>>, <<>>)]
        Give(json) == [ok |-> TRUE, message |-> <<>>, value |-> json]
    IN  IF thrown # <<>> THEN Raise(thrown)
        ELSE IF op # "getPortalUrl" THEN Give(r.json)
        ELSE IF r.json.type = "null"
             THEN Raise(<<"Cannot read properties of null (reading 'url')">>)
        ELSE IF r.json.url = <<>> THEN Raise(<<"No portal URL returned">>)
        ELSE Give(r.json)

\* one operation of api.ts runs to its end on a response of the service
ApiCall(op, response) ==
    /\ replies' = <<[op |-> op, response |-> response, result |-> ApiResult(op, response)]>>
    /\ outcome' = "requested"
    /\ UNCHANGED <<install, plugin, stored, vault, remote, pub, unpub, sweep, status,
                   calls, hist>>

\* ---------------------------------------------------------------------------
\* markdown.ts. A text is a sequence of characters; "title" and "---" stand
\* for those runs of characters, which every expression below treats alike.
\* ".png" and ".md" stand for a dot and the letters of an extension, "tick"
\* for a backtick, and Url(n) for the address the n-th uploaded image gets.
Url(n) == "https://img/" \o ToString(n)
Chars ==
    {"\n", " ", "#", "a", "title", ":", "---", "[", "]", "|", "%", "\"", "'",
     "!", "(", ")", "tick", ".png", ".md"} \cup {Url(n) : n \in 1..MaxMarkup}

\* \s
Space == {" ", "\n"}

\* [\w/-]
TagChars == {"a", "title", "---"}

First(S) == CHOOSE x \in S : \A y \in S : x <= y
Last(S) == CHOOSE x \in S : \A y \in S : x >= y

\* md.slice(n)
Slice(md, n) == SubSeq(md, n + 1, Len(md))

\* the index where the longest run of characters of class that starts at i
\* ends (i - 1 when the run is empty)
RECURSIVE Run(_, _, _)
Run(md, i, class) ==
    IF i <= Len(md) /\ md[i] \in class THEN Run(md, i + 1, class) ELSE i - 1

\* md.trim()
RECURSIVE Trim(_)
Trim(md) ==
    IF md = <<>> THEN md
    ELSE IF md[1] \in Space THEN Trim(Tail(md))
    ELSE IF md[Len(md)] \in Space THEN Trim(SubSeq(md, 1, Len(md) - 1))
    ELSE md

\* /^---\r?\n[\s\S]*?\r?\n---/: the index of the "---" that closes a header
\* at the start of the text, 0 when there is none
HeaderEnd(md) ==
    IF Len(md) >= 4 /\ md[1] = "---" /\ md[2] = "\n"
    THEN LET closes == {j \in 3..(Len(md) - 1) : md[j] = "\n" /\ md[j + 1] = "---"}
         IN  IF closes = {} THEN 0 ELSE First(closes) + 1
    ELSE 0

StripFrontmatter(md) ==
    LET e == HeaderEnd(md)
    IN  IF e = 0 THEN md
        ELSE IF e < Len(md) /\ md[e + 1] = "\n" THEN Slice(md, e + 1)
        ELSE Slice(md, e)

\* md.replace(/%%[\s\S]*?%%/g, "")
RECURSIVE StripComments(_)
StripComments(md) ==
    LET Pairs(from) == {i \in from..(Len(md) - 1) : md[i] = "%" /\ md[i + 1] = "%"}
    IN  IF Pairs(1) = {} \/ Pairs(First(Pairs(1)) + 2) = {} THEN md
        ELSE LET i == First(Pairs(1))
                 k == First(Pairs(i + 2))
             IN  SubSeq(md, 1, i - 1) \o StripComments(Slice(md, k + 1))

\* a wiki link that starts at i: where it ends and the text that replaces
\* it; end 0 when no link starts at i.
\* aliased: /\[\[([^\]|]+)\|([^\]]+)\]\]/ -> $2, plain: /\[\[([^\]]+)\]\]/ -> $1
WikiLink(md, i, aliased) ==
    LET none == [end |-> 0, text |-> <<>>]
        e1 == IF aliased THEN Run(md, i + 2, Chars \ {"]", "|"}) ELSE i
        from == IF aliased THEN e1 + 2 ELSE i + 2
        e2 == Run(md, from, Chars \ {"]"})
    IN  IF ~(i < Len(md) /\ md[i] = "[" /\ md[i + 1] = "[") THEN none
        ELSE IF aliased /\ ~(e1 >= i + 2 /\ e1 < Len(md) /\ md[e1 + 1] = "|") THEN none
        ELSE IF e2 >= from /\ e2 + 2 <= Len(md) /\ md[e2 + 1] = "]" /\ md[e2 + 2] = "]"
             THEN [end |-> e2 + 2, text |-> SubSeq(md, from, e2)]
        ELSE none

RECURSIVE ReplaceLinks(_, _)
ReplaceLinks(md, aliased) ==
    LET starts == {i \in 1..Len(md) : WikiLink(md, i, aliased).end > 0}
    IN  IF starts = {} THEN md
        ELSE LET i == First(starts)
                 link == WikiLink(md, i, aliased)
             IN  SubSeq(md, 1, i - 1) \o link.text \o ReplaceLinks(Slice(md, link.end), aliased)

ConvertWikiLinks(md) == ReplaceLinks(ReplaceLinks(md, TRUE), FALSE)

\* the test of the stripTags callback for a match that starts at i and whose
\* "#" is at hash: what the line holds before the "#" is one to six "#"
IsHeadingMarker(md, i, hash) ==
    LET upto == IF i > 1 THEN i - 1 ELSE 1
        breaks == {j \in 1..upto : md[j] = "\n"}
        lineStart == IF breaks = {} THEN 1 ELSE Last(breaks) + 1
        before == Trim(SubSeq(md, lineStart, hash - 1))
    IN  /\ Len(before) \in 1..6
        /\ \A j \in 1..Len(before) : before[j] = "#"

\* md.replace(/(^|\s)#(?!#|\s)([\w/-]+)/gm, callback): what the text from
\* index i on becomes (stripTags(md) is StripTags(md, 1))
RECURSIVE StripTags(_, _)
StripTags(md, i) ==
    IF i > Len(md) THEN <<>>
    ELSE LET Tag(h) == h < Len(md) /\ md[h] = "#" /\ md[h + 1] \in TagChars
             hash == IF (i = 1 \/ md[i - 1] = "\n") /\ Tag(i) THEN i
                     ELSE IF md[i] \in Space /\ Tag(i + 1) THEN i + 1
                     ELSE 0
             e == Run(md, hash + 1, TagChars)
         IN  IF hash = 0 THEN <<md[i]>> \o StripTags(md, i + 1)
             ELSE IF IsHeadingMarker(md, i, hash)
                  THEN SubSeq(md, i, e) \o StripTags(md, e + 1)
             ELSE SubSeq(md, i, hash - 1) \o StripTags(md, e + 1)

\* the matches of a global regular expression, from left to right: at[i] is
\* the match that starts at i (end 0 when there is none), and the search
\* goes on after the end of each match
RECURSIVE Scan(_, _)
Scan(at, from) ==
    LET starts == {i \in DOMAIN at : i >= from /\ at[i].end > 0}
    IN  IF starts = {} THEN <<>>
        ELSE <<at[First(starts)]>> \o Scan(at, at[First(starts)].end + 1)

\* /^(`{3,}|~{3,}).*\n[\s\S]*?\n\1\s*$/gm at i: a line that starts with three
\* backticks or more, and the nearest later line that is the same fence
\* followed by white space only; the longest fence that has such a line
FencedBlock(md, i) ==
    LET n == Run(md, i, {"tick"}) - i + 1
        eols(k) == {j \in (i + k)..Len(md) : md[j] = "\n"}
        \* where \s*$ ends after a closing fence that ends at p: 0 for nowhere
        LineEnd(p) ==
            LET ends == {q \in p..Run(md, p + 1, Space) : q = Len(md) \/ md[q + 1] = "\n"}
            IN  IF ends = {} THEN 0 ELSE Last(ends)
        closes(k) ==
            IF eols(k) = {} THEN {}
            ELSE {c \in (First(eols(k)) + 1)..(Len(md) - k) :
                    /\ md[c] = "\n"
                    /\ \A j \in 1..k : md[c + j] = "tick"
                    /\ LineEnd(c + k) > 0}
        fences == {k \in 3..n : closes(k) # {}}
    IN  IF (i = 1 \/ md[i - 1] = "\n") /\ fences # {}
        THEN [start |-> i, end |-> LineEnd(First(closes(Last(fences))) + Last(fences))]
        ELSE [start |-> i, end |-> 0]

\* /`[^`\n]+`/g at i
InlineCode(md, i) ==
    LET e == Run(md, i + 1, Chars \ {"tick", "\n"})
    IN  [start |-> i,
         end |-> IF md[i] = "tick" /\ e > i /\ e < Len(md) /\ md[e + 1] = "tick" THEN e + 1 ELSE 0]

\* buildCodeRegions: the fenced blocks, then the inline spans
BuildCodeRegions(md) ==
    Scan([i \in 1..Len(md) |-> FencedBlock(md, i)], 1) \o
    Scan([i \in 1..Len(md) |-> InlineCode(md, i)], 1)

\* a test that finds no reference inside code
NeverInsideCode(offset, regions) == FALSE

\* offset >= r.start && offset < r.end, with end the last index of the region
IsInsideCode(offset, regions) ==
    \E r \in DOMAIN regions : offset >= regions[r].start /\ offset <= regions[r].end

\* /\.(png|jpe?g|gif|webp|svg)$/i
ImageExtension(fileName) == fileName # <<>> /\ fileName[Len(fileName)] = ".png"

\* [a-zA-Z]
Letters == {"a", "title"}

\* /!\[\[([^\]|]+(?:\.[a-zA-Z]+))(?:\|[^\]]*)?\]\]/g at i
WikiImage(md, i) ==
    LET none == [start |-> i, end |-> 0, wiki |-> TRUE, alt |-> <<>>, path |-> <<>>]
        e == Run(md, i + 3, Chars \ {"]", "|"})
        \* the group ends with a dot and letters, after one character at least
        dotted == \E k \in (i + 4)..e :
                     /\ md[k] \in {".png", ".md"}
                     /\ \A j \in (k + 1)..e : md[j] \in Letters
        e2 == IF e < Len(md) /\ md[e + 1] = "|" THEN Run(md, e + 2, Chars \ {"]"}) ELSE e
    IN  IF /\ i + 2 <= Len(md) /\ md[i] = "!" /\ md[i + 1] = "[" /\ md[i + 2] = "["
           /\ dotted
           /\ e2 + 2 <= Len(md) /\ md[e2 + 1] = "]" /\ md[e2 + 2] = "]"
        THEN [none EXCEPT !.end = e2 + 2, !.path = SubSeq(md, i + 3, e)]
        ELSE none

\* /!\[([^\]]*)\]\((?!https?:\/\/)([^)]+)\)/g at i
MdImage(md, i) ==
    LET none == [start |-> i, end |-> 0, wiki |-> FALSE, alt |-> <<>>, path |-> <<>>]
        e1 == Run(md, i + 2, Chars \ {"]"})
        e2 == Run(md, e1 + 3, Chars \ {")"})
    IN  IF /\ i + 1 <= Len(md) /\ md[i] = "!" /\ md[i + 1] = "["
           /\ e1 + 3 <= Len(md) /\ md[e1 + 1] = "]" /\ md[e1 + 2] = "("
           /\ md[e1 + 3] \notin {Url(n) : n \in 1..MaxMarkup}
           /\ e2 >= e1 + 3 /\ e2 < Len(md) /\ md[e2 + 1] = ")"
        THEN [none EXCEPT !.end = e2 + 1, !.alt = SubSeq(md, i + 2, e1),
                          !.path = SubSeq(md, e1 + 3, e2)]
        ELSE none

\* the references processImages hands to resolveAndUploadImage, in the order
\* of its two loops: those that start outside code and name an image
Queued(md) ==
    LET all == Scan([i \in 1..Len(md) |-> WikiImage(md, i)], 1) \o
               Scan([i \in 1..Len(md) |-> MdImage(md, i)], 1)
        codeRegions == BuildCodeRegions(md)
    IN  SelectSeq(all, LAMBDA r : /\ ~IsInsideCode(r.start, codeRegions)
                                  /\ ImageExtension(r.path))

\* resolveAndUploadImage: null ("") unless the document is found and read,
\* its type is known and the upload succeeds. fate: what happens to the call
Fates == {"missing", "unreadable", "untyped", "rejected", "uploaded"}
ResolveAndUploadImage(fate, address) == IF fate = "uploaded" THEN address ELSE ""

\* md.split(original).join(replacement)
RECURSIVE SplitJoin(_, _, _)
SplitJoin(md, original, replacement) ==
    LET n == Len(original)
        hits == {i \in 1..(Len(md) - n + 1) : SubSeq(md, i, i + n - 1) = original}
    IN  IF hits = {} THEN md
        ELSE SubSeq(md, 1, First(hits) - 1) \o replacement \o
             SplitJoin(Slice(md, First(hits) + n - 1), original, replacement)

\* the loop over replacements, from the k-th queued reference on
\* (source is the text the references were found in). The replacement of a
\* wiki reference is ![](url), that of a markdown reference ![alt](url); the
\* loop tells them apart by original.startsWith("![[")
RECURSIVE ApplyReplacements(_, _, _, _, _)
ApplyReplacements(md, source, refs, urls, k) ==
    IF k > Len(refs) THEN md
    ELSE IF urls[k] = "" THEN ApplyReplacements(md, source, refs, urls, k + 1)
    ELSE LET original == SubSeq(source, refs[k].start, refs[k].end)
             url == IF refs[k].wiki THEN <<urls[k]>>
                    ELSE <<"!", "[">> \o refs[k].alt \o <<"]", "(", urls[k], ")">>
             replacement == IF original[3] = "["
                            THEN <<"!", "[", "]", "(">> \o url \o <<")">>
                            ELSE url
         IN  ApplyReplacements(SplitJoin(md, original, replacement), source, refs, urls,
                               k + 1)

\* an image step that gives up at the first call that fails
ProcessImagesUntilFailure(md, fates) ==
    LET refs == Queued(md)
        ok(k) == \A j \in 1..k : j <= Len(fates) /\ fates[j] = "uploaded"
        urls == [k \in 1..Len(refs) |-> IF ok(k) THEN Url(k) ELSE ""]
    IN  ApplyReplacements(md, md, refs, urls, 1)

\* processImages. fates: what happens to the successive calls of
\* resolveAndUploadImage (a call beyond them finds no document)
ProcessImages(md, fates) ==
    LET refs == Queued(md)
        urls == [k \in 1..Len(refs) |->
                    ResolveAndUploadImage(IF k <= Len(fates) THEN fates[k] ELSE "missing",
                                          Url(k))]
    IN  ApplyReplacements(md, md, refs, urls, 1)

ProcessMarkdown(text, fates, shouldStripTags) ==
    LET md == ConvertWikiLinks(ProcessImages(StripComments(StripFrontmatter(text)), fates))
    IN  Trim(IF shouldStripTags THEN StripTags(md, 1) ELSE md)

\* the group (.+) of /^title:\s*(.+)$/m (least 0) and /^#\s+(.+)$/m (least 1)
\* when the text before the white space ends at p; <<>> when neither matches
Captured(md, p, least) ==
    LET q == Run(md, p + 1, Space)
        ks == {k \in (p + least)..q : k < Len(md) /\ md[k + 1] # "\n"}
    IN  IF ks = {} THEN <<>>
        ELSE SubSeq(md, Last(ks) + 1, Run(md, Last(ks) + 1, Chars \ {"\n"}))

LineStarts(md) == {p \in 1..Len(md) : p = 1 \/ md[p - 1] = "\n"}

\* .replace(/^["']|["']$/g, "")
Unquote(t) ==
    LET u == IF t # <<>> /\ t[1] \in {"\"", "'"} THEN Tail(t) ELSE t
    IN  IF u # <<>> /\ u[Len(u)] \in {"\"", "'"} THEN SubSeq(u, 1, Len(u) - 1) ELSE u

ExtractTitle(text, basename) ==
    LET header == SubSeq(text, 1, HeaderEnd(text))
        keys == {p \in LineStarts(header) :
                    /\ p < Len(header) /\ header[p] = "title" /\ header[p + 1] = ":"
                    /\ Captured(header, p + 1, 0) # <<>>}
        stripped == StripFrontmatter(text)
        h1s == {p \in LineStarts(stripped) :
                    stripped[p] = "#" /\ Captured(stripped, p, 1) # <<>>}
    IN  IF keys # {} THEN Unquote(Trim(Captured(header, First(keys) + 1, 0)))
        ELSE IF h1s # {} THEN Trim(Captured(stripped, First(h1s), 1))
        ELSE basename

\* publishFile: the markdown it sends and the title it sends with it
Basename == <<"note">>

\* a publish that looks for the heading in the text as it was read
PublishBodyOfRaw(text, fates, shouldStripTags) ==
    LET title == ExtractTitle(text, Basename)
        markdown == ProcessMarkdown(text, fates, shouldStripTags)
    IN  [title |-> title,
         markdown |-> IF Len(text) >= 2 /\ text[1] = "#" /\ text[2] = " "
                      THEN markdown
                      ELSE <<"#", " ">> \o title \o <<"\n", "\n">> \o markdown]

PublishBody(text, fates, shouldStripTags) ==
    LET title == ExtractTitle(text, Basename)
        markdown == ProcessMarkdown(text, fates, shouldStripTags)
    IN  [title |-> title,
         markdown |-> IF Len(markdown) >= 2 /\ markdown[1] = "#" /\ markdown[2] = " "
                      THEN markdown
                      ELSE <<"#", " ">> \o title \o <<"\n", "\n">> \o markdown]

\* the user writes on: piece is appended to the document
Type(piece, most) ==
    /\ Len(content) + Len(piece) <= most
    /\ content' = content \o piece
    /\ replies' = <<>>
    /\ outcome' = "typed"
    /\ UNCHANGED <<install, plugin, stored, files, frontmatter, remote, pub, unpub, sweep,
                   status, calls, hist>>

\* the steps below leave everything but their result as it is
Computed(result, name) ==
    /\ replies' = <<result>>
    /\ outcome' = name
    /\ UNCHANGED <<install, plugin, stored, vault, remote, pub, unpub, sweep, status,
                   calls, hist>>

\* stripTags on the document
TagStep == Computed([text |-> content, output |-> StripTags(content, 1)], "stripped")

\* processMarkdown on the document, and again on what it returned
ProcessTwice(shouldStripTags) ==
    LET once == ProcessMarkdown(content, <<>>, shouldStripTags)
    IN  Computed([text |-> content, shouldStripTags |-> shouldStripTags, once |-> once,
                  twice |-> ProcessMarkdown(once, <<>>, shouldStripTags)], "processed")

\* publishFile from vault.read up to the markdown and title it sends
PrepareBody(shouldStripTags) ==
    Computed([text |-> content, shouldStripTags |-> shouldStripTags,
              transformed |-> ProcessMarkdown(content, <<>>, shouldStripTags),
              sent |-> PublishBody(content, <<>>, shouldStripTags)], "prepared")

\* processMarkdown on the document, over what happens to each image it
\* refers to; md is the text the image step receives
TransformImages(shouldStripTags) ==
    LET md == StripComments(StripFrontmatter(content))
        queued == Queued(md)
    IN  \E fates \in [1..Len(queued) -> Fates] :
            Computed([md |-> md, fates |-> fates, shouldStripTags |-> shouldStripTags,
                      regions |-> BuildCodeRegions(md), queued |-> queued,
                      images |-> ProcessImages(md, fates),
                      output |-> ProcessMarkdown(content, fates, shouldStripTags)],
                     "transformed")

\* resolveAndUploadImage. A path is the sequence of its folder names and its
\* file name, so that f.name is its last element.
\* vault.getFiles(): the documents of a vault in the order it lists them
Listings ==
    LET paths == {<<"a.png">>, <<"img", "a.png">>, <<"old", "img", "a.png">>, <<"b.png">>}
    IN  {l \in UNION {[1..n -> paths] : n \in 0..Cardinality(paths)} :
            \A i \in DOMAIN l, j \in DOMAIN l : l[i] = l[j] => i = j}

\* f.path === fileName || f.name === fileName || f.path.endsWith("/" + fileName)
Matches(path, fileName) ==
    \/ path = fileName
    \/ <<path[Len(path)]>> = fileName
    \/ /\ Len(path) > Len(fileName)
       /\ SubSeq(path, Len(path) - Len(fileName) + 1, Len(path)) = fileName

\* vault.getFiles().find(...): the first document listed that matches, <<>>
\* for undefined
Resolved(listing, fileName) ==
    LET hits == {i \in DOMAIN listing : Matches(listing[i], fileName)}
    IN  IF hits = {} THEN <<>> ELSE listing[First(hits)]

ResolveImage(listing, fileName) ==
    Computed([listing |-> listing, fileName |-> fileName,
              resolved |-> Resolved(listing, fileName)], "resolved")

(* ----------------- publishFile, one awaited step at a time ------------ *)
\* uploadImage(apiKey, data, resolved.name, mimeType) for the reference at
\* position k of the queue
UploadCall(apiKey, k) ==
    [fn |-> "uploadImage", apiKey |-> apiKey, slug |-> Undefined, image |-> k]

\* uploads that are all issued before the first is awaited
UploadsTogether(invocation) == TRUE

\* an upload is issued when none is awaited: each call of
\* resolveAndUploadImage is awaited inside the loop that makes it
UploadsInTurn(invocation) == ~invocation.uploading

\* what follows the reference at position k: the next reference or, after
\* the last one, the create-or-update call
AfterImage(invocation, k) ==
    /\ pub' = [invocation EXCEPT !.settled = k, !.uploading = FALSE,
                                 !.pc = IF k = Len(invocation.queued) THEN "call"
                                        ELSE "images"]
    /\ calls' = IF k = Len(invocation.queued)
                THEN Append(calls, FirstCall(invocation.hasApiKey, settings.apiKey,
                                             invocation.existing))
                ELSE calls

\* publishFile up to await this.app.vault.read(file)
PublishFileReads(p) ==
    /\ p \in files
    /\ pub.pc = "idle"
    /\ pub' = [pc |-> "read", path |-> p, hasApiKey |-> settings.apiKey # NoKey,
               existing |-> Lookup(publishedNotes, p), queued |-> <<>>,
               settled |-> 0, uploading |-> FALSE]
    /\ calls' = <<>>
    /\ replies' = <<>>
    /\ outcome' = "none"
    /\ unpub' = IdleUnpub /\ sweep' = IdleSweep
    /\ SetStatus(Retired(Status))
    /\ hist' = Fresh(hist)
    /\ UNCHANGED <<install, plugin, stored, vault, remote>>

\* vault.read rejects: the outer catch shows the error
ReadRejects ==
    /\ pub.pc = "read"
    /\ pub' = [pub EXCEPT !.pc = "idle"]
    /\ outcome' = PublishFailed("read")
    /\ UNCHANGED <<install, plugin, stored, vault, remote, unpub, sweep, status, calls,
                   replies, hist>>

\* vault.read resolves: processMarkdown runs up to the first image it
\* queues, or through to the create-or-update call when it queues none
ReadResolves ==
    /\ pub.pc = "read"
    /\ AfterImage([pub EXCEPT !.queued = Queued(StripComments(StripFrontmatter(content)))],
                  0)
    /\ UNCHANGED <<install, plugin, stored, vault, remote, unpub, sweep, status, replies,
                   outcome, hist>>

\* resolveAndUploadImage returns null before it reaches uploadImage
ImageSkipped ==
    /\ pub.pc = "images" /\ ~pub.uploading
    /\ AfterImage(pub, pub.settled + 1)
    /\ UNCHANGED <<install, plugin, stored, vault, remote, unpub, sweep, status, replies,
                   outcome, hist>>

\* resolveAndUploadImage reaches await uploadImage(...)
UploadIssued ==
    /\ pub.pc = "images" /\ UploadsInTurn(pub)
    /\ Len(calls) < Len(pub.queued)
    /\ pub' = [pub EXCEPT !.uploading = TRUE]
    /\ calls' = Append(calls, UploadCall(settings.apiKey, pub.settled + 1))
    /\ UNCHANGED <<install, plugin, stored, vault, remote, unpub, sweep, status, replies,
                   outcome, hist>>

\* the upload in flight is answered, with a url or with an error that
\* resolveAndUploadImage catches
UploadSettles ==
    /\ pub.pc = "images" /\ pub.uploading
    /\ \E reply \in {[url |-> Url(pub.settled + 1)], Failure("Upload failed")} :
          replies' = Append(replies, reply)
    /\ AfterImage(pub, pub.settled + 1)
    /\ UNCHANGED <<install, plugin, stored, vault, remote, unpub, sweep, status, outcome,
                   hist>>
(* --------------------------- specifications --------------------------- *)
\* a task of the event loop starts only when no continuation is ready
Macro == microtasks = <<>>

\* no status check is running
ChecksReturned == \A c \in Callers : chk[c].pc \in {"idle", "returned"}

\* the documents whose publish or claim awaits the answer of the remote
\* service
Awaited ==
    (IF pub.pc \in {"call", "retry"} THEN {pub.path} ELSE {}) \cup
    (IF sweep.pc = "claiming" THEN {sweep.order[Len(sweep.order)]} ELSE {})

\* Handlers run one after the other: each user action, and what it started,
\* has finished before the next one begins.
Publishing ==
    \/ \E p \in Paths : Quiet /\ PublishFile(p)
    \/ Macro /\ PublishResolves
    \/ Macro /\ PublishRejects

Unpublishing ==
    \/ \E p \in Paths : Quiet /\ UnpublishNote(p)
    \/ UnpublishDismissed
    \/ UnpublishConfirmed
    \/ Macro /\ DeleteResolves
    \/ Macro /\ DeleteRejects

Notifications ==
    \/ \E p \in Paths, q \in Paths : Quiet /\ RenameFile(p, q)
    \/ \E p \in Paths : Quiet /\ DeleteFile(p)
    \/ \E p \in Paths : Quiet /\ CreateFile(p)

Protocol ==
    \E token \in Tokens, upgraded \in {Undefined, "1"} :
        Quiet /\ ProtocolHandler(token, upgraded)

Claiming ==
    \/ Macro /\ ClaimResolves
    \/ Macro /\ ClaimRejects

\* a status check that no other check overlaps
Checking ==
    \/ \E c \in Callers : Macro /\ ListDocumentsSettles(c)
    \/ \E c \in Callers : CheckFinally(c)

Upgrading == \E c \in Callers : HandleProUpgradeResumes(c)

Account ==
    \/ Quiet /\ Disconnect
    \/ Quiet /\ SetApiKey(ValidKey)

Toggle == \E v \in BOOLEAN : Quiet /\ SetStoreFrontmatter(v)

Editing == \E p \in Paths, fm \in Headers : Quiet /\ EditHeader(p, fm)

\* the user duplicates a document: the copy carries the header of the original
Duplicating ==
    \E p \in Paths, q \in Paths : Quiet /\ q \in files /\ EditHeader(p, frontmatter[q])

Writing ==
    \E p \in Paths, n \in 1..MaxPublishes, e \in {NoExpiry, ExpiresAt}, ttlDays \in ResponseTtl :
        Quiet /\ WriteHeader(p, SlugName(n), e, ttlDays)

Requesting ==
    \E op \in DOMAIN Context, response \in Responses : Quiet /\ ApiCall(op, response)

Typing(pieces, most) == \E piece \in pieces : Quiet /\ Type(piece, most)

Resolving ==
    \E listing \in Listings, fileName \in {<<"a.png">>, <<"img", "a.png">>, <<"c.png">>} :
        Quiet /\ ResolveImage(listing, fileName)

Next ==
    \/ Publishing \/ Unpublishing \/ Notifications \/ Protocol \/ Claiming \/ Checking
    \/ Upgrading
    \/ \E c \in Callers : CheckResumes(c)
    \/ Account \/ Toggle \/ Editing \/ Duplicating \/ Writing
    \/ Requesting \/ Resolving
    \/ Typing({<<c>> : c \in Chars}, MaxDocument)
    \/ Quiet /\ TagStep
    \/ \E strip \in BOOLEAN : Quiet /\ (ProcessTwice(strip) \/ PrepareBody(strip))
    \/ Quiet /\ Onload
    \/ Macro /\ InvokeCheckProStatus

Spec == Init /\ [][Next]_vars

\* publishes under every account and header setting
PublishNext == Publishing \/ Account \/ Toggle
PublishSpec == Init /\ [][PublishNext]_vars

\* anonymous publishes, a credential arriving, the claim sweep
ClaimNext ==
    \/ Publishing \/ Claiming \/ Checking \/ Account
    \/ \E token \in Tokens : Quiet /\ ProtocolHandler(token, Undefined)
ClaimSpec == Init /\ [][ClaimNext]_vars

\* publish, unpublish and the vault's rename and delete notifications
NotifyNext == Publishing \/ Unpublishing \/ Notifications
NotifySpec == Init /\ [][NotifyNext]_vars

\* tier detection: publishes, upgrade notifications, disconnects, restarts
TierNext ==
    \/ Publishing \/ Checking \/ Upgrading \/ Account
    \/ Quiet /\ ProtocolHandler(Undefined, "1")
    \/ Quiet /\ Onload
TierSpec == Init /\ [][TierNext]_vars

\* protocol requests that bring no usable token, over anonymous and
\* authenticated publishes
ProtocolSpec ==
    Init /\ [][
        \/ Publishing \/ Checking \/ Upgrading
        \/ Quiet /\ SetApiKey(ValidKey)
        \/ \E token \in Tokens \ {ValidKey}, upgraded \in {Undefined, "1"} :
              Quiet /\ ProtocolHandler(token, upgraded)
        ]_vars

\* header mirroring switched off: publishes before and after, and unpublish,
\* the claim sweep and restarts while it is off
SilentSpec ==
    Init /\ [][
        \/ Quiet /\ SetStoreFrontmatter(FALSE)
        \/ Publishing
        \/ ~settings.storeFrontmatter /\
             \/ Unpublishing \/ Claiming \/ Checking
             \/ Quiet /\ ProtocolHandler(ValidKey, Undefined)
             \/ Quiet /\ Onload
        ]_vars

\* the operations of api.ts over every response
ApiSpec == Init /\ [][Requesting]_vars

\* image names resolved against every listing of the vault
ResolveSpec == Init /\ [][Resolving]_vars

\* tag stripping and the whole transformation over every short text, typed
\* one character at a time
TagSpec ==
    Init /\ [][
        \/ Typing({<<"#">>, <<" ">>, <<"a">>, <<"\n">>}, MaxText)
        \/ Quiet /\ TagStep
        \/ \E strip \in BOOLEAN : Quiet /\ ProcessTwice(strip)
        ]_vars

\* the title and the body of a publish over every text typed in pieces: a
\* header up to its title key, the end of a header, a word, a quoted word
TitleSpec ==
    Init /\ [][
        \/ Typing({<<"---", "\n", "title", ":">>, <<"\n", "---">>, <<"a">>, <<"#", " ">>,
                   <<"\"", "a">>, <<"\"", "a", "\"">>}, MaxDocument)
        \/ \E strip \in BOOLEAN : Quiet /\ PrepareBody(strip)
        ]_vars

\* the image step over texts typed in pieces: a wiki reference, a markdown
\* reference, a backtick, the first and the last line of a fenced block
ImageSpec ==
    Init /\ [][
        \/ Typing({<<"!", "[", "[", "a", ".png", "]", "]">>,
                   <<"!", "[", "a", "]", "(", "a", ".png", ")">>,
                   <<"tick">>, <<"tick", "tick", "tick", "\n">>,
                   <<"\n", "tick", "tick", "tick">>}, MaxMarkup)
        \/ Quiet /\ TransformImages(FALSE)
        ]_vars

\* a credential delivered twice: anonymous publishes of a document, the
\* claim sweep, and a second delivery while the sweep awaits a claim (one
\* for each sweep; every status check returns before the next claim is
\* answered)
ResweepSpec ==
    Init /\ [][
        \/ Quiet /\ PublishFile("a.md")
        \/ Macro /\ PublishResolves
        \/ Macro /\ PublishRejects
        \/ Checking
        \/ Quiet /\ ProtocolHandler(ValidKey, Undefined)
        \/ ChecksReturned /\ Macro /\ ClaimResolves
        \/ ChecksReturned /\ Macro /\ ClaimRejects
        \/ ChecksReturned /\ Macro /\ sweep.again = IdleAgain /\ ProtocolHandlerAgain(ValidKey)
        \/ ChecksReturned /\ Macro /\ ClaimAgainResolves
        \/ ChecksReturned /\ Macro /\ ClaimAgainRejects
        ]_vars

\* rename and delete notifications for a document that arrive while its
\* publish or its claim awaits the remote service (one for each answer
\* awaited, once the status check has returned)
RaceSpec ==
    Init /\ [][
        \/ Quiet /\ PublishFile("a.md")
        \/ Macro /\ PublishResolves
        \/ Macro /\ PublishRejects
        \/ Checking
        \/ Quiet /\ ProtocolHandler(ValidKey, Undefined)
        \/ ChecksReturned /\ Macro /\ ClaimResolves
        \/ ChecksReturned /\ Macro /\ ClaimRejects
        \/ \E p \in Awaited, q \in Paths :
              outcome = "none" /\ ChecksReturned /\ Macro /\ RenameFile(p, q)
        \/ \E p \in Awaited :
              outcome = "none" /\ ChecksReturned /\ Macro /\ DeleteFile(p)
        ]_vars

\* publishes of documents with image references, one awaited step at a
\* time
StepSpec ==
    Init /\ [][
        \/ Quiet /\ Typing({<<"!", "[", "[", "a", ".png", "]", "]">>,
                            <<"!", "[", "a", "]", "(", "a", ".png", ")">>,
                            <<"tick">>}, MaxMarkup)
        \/ Quiet /\ PublishFileReads("a.md")
        \/ ReadRejects
        \/ ReadResolves
        \/ ImageSkipped
        \/ UploadIssued
        \/ UploadSettles
        \/ Macro /\ PublishResolves
        \/ Macro /\ PublishRejects
        ]_vars

\* the header write over every response and every header
HeaderSpec == Init /\ [][Writing \/ Editing]_vars

\* publishes across disconnects, reconnects and restarts
RearmNext ==
    \/ Publishing \/ Checking \/ Account
    \/ Quiet /\ Onload
RearmSpec == Init /\ [][RearmNext]_vars

\* tier upgrades while the account stays as it is: publishes, upgrade
\* notifications, restarts
UpgradeNext ==
    \/ Publishing \/ Checking \/ Upgrading
    \/ Quiet /\ ProtocolHandler(Undefined, "1")
    \/ Quiet /\ Onload
UpgradeSpec == Init /\ [][UpgradeNext]_vars

\* publish and unpublish under either header setting, over any header
UnpublishNext == Publishing \/ Unpublishing \/ Toggle \/ Editing
UnpublishSpec == Init /\ [][UnpublishNext]_vars

\* publish and unpublish under either header setting, and restarts
UnpublishRestartSpec ==
    Init /\ [][
        \/ Publishing \/ Unpublishing \/ Toggle \/ Checking
        \/ Quiet /\ Onload
        ]_vars

\* publish and unpublish while the account is connected and disconnected
VariantNext == Publishing \/ Unpublishing \/ Account
VariantSpec == Init /\ [][VariantNext]_vars

\* restarts over headers the run did not write
ReconcileNext ==
    \/ Checking \/ Toggle \/ Editing
    \/ Quiet /\ Onload
ReconcileSpec == Init /\ [][ReconcileNext]_vars

\* who owns the remote documents: publishes with and without a credential,
\* claims, and restarts over headers copied between documents
OwnerNext ==
    \/ Publishing \/ Claiming \/ Checking \/ Account \/ Duplicating
    \/ \E token \in Tokens : Quiet /\ ProtocolHandler(token, Undefined)
    \/ Quiet /\ Onload
OwnerSpec == Init /\ [][OwnerNext]_vars

\* overlapping status checks
StatusNext ==
    \/ Macro /\ InvokeCheckProStatus
    \/ \E c \in Callers : Macro /\ ListDocumentsSettles(c)
    \/ \E c \in Callers : CheckFinally(c)
    \/ \E c \in Callers : CheckResumes(c)
    \/ Macro /\ Disconnect
    \/ Macro /\ SetApiKey(ValidKey)
StatusSpec == Init /\ [][StatusNext]_vars

\* the event loop runs every ready continuation, and every listDocuments
\* call is answered
FairStatusSpec ==
    /\ StatusSpec
    /\ \A c \in Callers : WF_vars(Macro /\ ListDocumentsSettles(c))
    /\ \A c \in Callers : WF_vars(CheckFinally(c))
    /\ \A c \in Callers : WF_vars(CheckResumes(c))


(* ------------------------------ properties ---------------------------- *)
LastReply == replies[Len(replies)]

\* publishFile has ended with a stored record
PublishSucceeded == pub.pc = "idle" /\ outcome \in {"Published", "Updated"}

\* C1: the first remote call of a publish carries the slug of the record
\* stored for the path, and no slug when the path has no record; a publish
\* that succeeds stores the slug the service returned, so the next publish of
\* the path sends that slug.
C1_PublishCarriesRecordSlug ==
    /\ pub.pc = "call" =>
        /\ Len(calls) = 1
        /\ calls[1].slug = (IF pub.path \in Keys(publishedNotes)
                            THEN publishedNotes[pub.path].slug ELSE Undefined)
    /\ PublishSucceeded => publishedNotes[pub.path].slug = LastReply.slug

C1_Witness ==
    /\ pub.pc = "call" /\ clock = 1
    /\ pub.path \in Keys(publishedNotes)
    /\ calls[1].slug = SlugName(1)

\* the update of a tracked path was answered "not found"
UpdateNotFound ==
    /\ pub.existing # NoNote /\ Len(replies) >= 1
    /\ IsError(replies[1]) /\ IsNotFound(replies[1].error)

RetrySucceeded == PublishSucceeded /\ UpdateNotFound /\ Len(replies) = 2

RecordHoldsReply ==
    /\ publishedNotes[pub.path].slug = LastReply.slug
    /\ publishedNotes[pub.path].url = LastReply.url
    /\ publishedNotes[pub.path].editToken = LastReply.editToken

\* C2 as stated: after the retry succeeds the record holds the new slug, url
\* and edit token and the header mirror holds the new url.
C2_RetryMirrorsUrl ==
    RetrySucceeded =>
        /\ RecordHoldsReply
        /\ frontmatter[pub.path].jotbird_link = LastReply.url

\* C2: an update answered "not found" is followed by exactly one further
\* call, a create with neither slug nor edit token; when it succeeds the
\* record holds the new slug, url and edit token, and the header mirror holds
\* the new url provided storeFrontmatter is on and the header write did not fail.
C2_RetryOnceAsCreate ==
    /\ Len(calls) <= 2
    /\ UpdateNotFound =>
        /\ Len(calls) = 2
        /\ calls[1].slug = pub.existing.slug
        /\ calls[2].fn = calls[1].fn
        /\ calls[2].slug = Undefined /\ calls[2].editToken = Undefined
    /\ RetrySucceeded =>
        /\ RecordHoldsReply
        /\ LastReply.slug # pub.existing.slug
        /\ settings.storeFrontmatter /\ pub.path \notin hist.fmFailed
             => frontmatter[pub.path].jotbird_link = LastReply.url

C2_Witness ==
    /\ RetrySucceeded
    /\ publishedNotes[pub.path].slug = SlugName(2)
    /\ frontmatter[pub.path].jotbird_link = UrlOf(SlugName(2))

\* the call in flight is answered with an error the catch does not retry
FailsForGood ==
    /\ pub.pc \in {"call", "retry"}
    /\ Len(replies') = Len(replies) + 1
    /\ IsError(replies'[Len(replies')])
    /\ pub.pc = "retry" \/ ~IsNotFound(replies'[Len(replies')].error)

\* C3: when the remote call of a publish fails with an error other than
\* "not found", no further call is made, the record mapping and the stored
\* state are unchanged, and publishFile ends with a Notice instead of throwing.
C3_FailureLeavesState ==
    /\ [][FailsForGood => /\ calls' = calls
                          /\ publishedNotes' = publishedNotes
                          /\ stored' = stored
                          /\ pub'.pc = "idle"
                          /\ outcome' = "notice"]_vars
    /\ [](pub.pc = "idle" /\ outcome = "notice" /\ replies # <<>> =>
            /\ Lookup(publishedNotes, pub.path) = pub.existing
            /\ Len(calls) = Len(replies))

C3_Witness ==
    /\ pub.pc = "idle" /\ outcome = "notice"
    /\ Len(calls) = 1 /\ Len(replies) = 1
    /\ IsError(replies[1]) /\ ~IsNotFound(replies[1].error)
    /\ pub.existing # NoNote
    /\ stored.publishedNotes = publishedNotes

Calling == {c \in Callers : chk[c].pc = "calling"}
Pending == {c \in Callers : chk[c].pc \in {"waiting", "calling", "settled"}}

\* C4: at most one listDocuments call is in flight; a caller that found a
\* check in flight issues its own call once that one has finished, and
\* returns only after awaiting its own call.
C4_ChecksSerialized ==
    /\ Cardinality(Calling) <= 1
    /\ \A c \in Callers :
        /\ chk[c].pc = "calling" => proCheckInFlight = c
        /\ chk[c].pc = "returned" /\ chk[c].hadKey => chk[c].own /\ chk[c].awaitedOwn

C4_Witness ==
    \E c, d \in Callers :
        /\ chk[c].pc = "returned" /\ chk[c].waited /\ chk[c].own
        /\ chk[d].pc = "calling" /\ chk[d].waited

\* C5: every checkProStatus invocation eventually returns, and one that had
\* to wait returns after a call of its own, issued after it was invoked.
C5_EveryCheckReturns ==
    /\ \A c \in Callers : (c \in Pending) ~> (chk[c].pc = "returned")
    /\ [](\A c \in Callers :
            chk[c].pc = "returned" /\ chk[c].waited => chk[c].own /\ chk[c].awaitedOwn)

C5_Witness ==
    \E c \in Callers :
        /\ chk[c].pc = "returned" /\ chk[c].waited /\ chk[c].awaitedOwn
        /\ Pending = {}

\* the claim sweep has ended
SweepEnded == sweep.pc = "idle" /\ outcome = "swept"

\* C6: the claim sweep issues one claim for every record that carries an
\* edit token; a claim that succeeds leaves the server's slug and url, no
\* edit token and the original publishedAt; a claim that fails leaves the
\* record as it was and the sweep goes on; records without an edit token are
\* untouched.
C6_ClaimSweep ==
    SweepEnded =>
        LET start == sweep.start
            order == sweep.order
        IN /\ Len(order) = Cardinality(ToClaim(start))
           /\ {order[i] : i \in 1..Len(order)} = ToClaim(start)
           /\ Len(calls) = Len(order) /\ Len(replies) = Len(order)
           /\ Keys(publishedNotes) = Keys(start)
           /\ \A i \in 1..Len(order) :
                LET p == order[i]
                IN /\ calls[i].slug = start[p].slug
                   /\ calls[i].editToken = start[p].editToken
                   /\ IF IsError(replies[i])
                      THEN publishedNotes[p] = start[p]
                      ELSE publishedNotes[p] =
                             [slug |-> replies[i].slug, url |-> replies[i].url,
                              editToken |-> Undefined,
                              publishedAt |-> start[p].publishedAt]
           /\ \A p \in Keys(start) \ ToClaim(start) : publishedNotes[p] = start[p]

C6_Witness ==
    /\ SweepEnded /\ Len(replies) = 2
    /\ IsError(replies[1]) /\ ~IsError(replies[2])
    /\ replies[2].slug # sweep.start[sweep.order[2]].slug
    /\ publishedNotes[sweep.order[1]].editToken # Undefined
    /\ publishedNotes[sweep.order[2]].editToken = Undefined

\* C7: after any sequence of publish, unpublish, rename and delete handled
\* one after the other, the keys of publishedNotes are the tracked paths.
C7_KeysAreTrackedPaths ==
    /\ Keys(publishedNotes) = hist.tracked
    /\ hist.tracked \subseteq files

C7_Witness ==
    /\ outcome = "deleted" /\ clock = 2
    /\ Keys(publishedNotes) = {"c.md"}
    /\ files = {"c.md"}

C9_RefreshDoneStored == Quiet /\ hist.everSwept => stored.proRefreshDone

\* a sweep has just run
SweepJustRan == hist.swept /\ outcome \in {"Published", "Updated", "upgraded"}

\* the sweep's header writes
WroteNever ==
    settings.storeFrontmatter =>
        \A p \in Keys(publishedNotes) :
            p # hist.excluded /\ p \in files /\ p \notin hist.fmFailed
                => frontmatter[p].jotbird_expires = Never

\* C10 as stated: a status check that reports isPro true runs the sweep.
C10_StatusCheckSweeps == Quiet /\ isPro => hist.sweeps >= 1

\* C10: a publish answered with ttlDays null while proRefreshDone is false,
\* and an upgrade notification whose status check reports isPro true, run the
\* sweep; with storeFrontmatter on it sets the mirrored expiration of every
\* other tracked record whose document exists and whose header write does
\* not fail to "never".  A status check on its own runs no sweep.
C10_UpgradeSweep ==
    /\ [](SweepJustRan => WroteNever /\ proRefreshDone)
    /\ [][pub.pc \in {"call", "retry"} /\ PublishSucceeded'
            => (hist'.swept <=> LastReply'.ttlDays = TtlNull /\ ~proRefreshDone)]_vars
    /\ [][\A c \in Callers : chk[c].pc = "done" /\ chk'[c].pc = "returned"
            => (hist'.swept <=> isPro)]_vars
    /\ [][\A c \in Callers : chk[c].pc = "calling" /\ chk'[c].pc = "settled"
            => hist' = hist /\ frontmatter' = frontmatter]_vars

C10_Witness ==
    /\ SweepJustRan /\ settings.storeFrontmatter
    /\ \E p \in Keys(publishedNotes) :
        /\ p # hist.excluded /\ p \in files /\ p \notin hist.fmFailed
        /\ frontmatter[p].jotbird_expires = Never
        /\ publishedNotes[p].publishedAt = 1
    /\ clock = 2

\* the vault has renamed document o to n
Renamed(o, n) ==
    /\ o \in files /\ n \notin files
    /\ files' = (files \ {o}) \cup {n}
    /\ outcome' = "renamed"

\* C11: a rename notification moves the record of the old path, all fields
\* unchanged, to the new path, leaves none at the old path and every other
\* record as it was, and saves; without a record at the old path the mapping
\* and the stored state are unchanged.
C11_RenameMovesRecord ==
    [][\A o \in Paths, n \in Paths :
         Renamed(o, n) =>
           IF o \in Keys(publishedNotes)
           THEN /\ Keys(publishedNotes') = (Keys(publishedNotes) \ {o}) \cup {n}
                /\ publishedNotes'[n] = publishedNotes[o]
                /\ \A q \in Keys(publishedNotes) \ {o, n} :
                      publishedNotes'[q] = publishedNotes[q]
                /\ stored'.publishedNotes = publishedNotes'
           ELSE /\ publishedNotes' = publishedNotes
                /\ stored' = stored]_vars

C11_Witness ==
    /\ outcome = "renamed"
    /\ Keys(publishedNotes) = {"b.md", "c.md"}
    /\ publishedNotes["c.md"].publishedAt = 1
    /\ publishedNotes["c.md"].editToken # Undefined
    /\ stored.publishedNotes = publishedNotes

\* the vault has deleted document p
Deleted(p) == p \in files /\ files' = files \ {p} /\ outcome' = "deleted"

\* C12: a delete notification removes the record of the path, if there is
\* one, and saves, changing no other record; for a path without a record the
\* mapping and the stored state are unchanged.
C12_DeleteDropsRecord ==
    [][\A p \in Paths :
         Deleted(p) =>
           IF p \in Keys(publishedNotes)
           THEN /\ Keys(publishedNotes') = Keys(publishedNotes) \ {p}
                /\ \A q \in Keys(publishedNotes') : publishedNotes'[q] = publishedNotes[q]
                /\ stored'.publishedNotes = publishedNotes'
           ELSE /\ publishedNotes' = publishedNotes
                /\ stored' = stored]_vars

C12_Witness ==
    /\ outcome = "deleted"
    /\ files = {"b.md"}
    /\ Keys(publishedNotes) = {"b.md"}
    /\ clock = 2
    /\ stored.publishedNotes = publishedNotes

\* the plugin has just been started
Loaded == outcome' = "loaded"

\* C13: startup reconciliation adds a record only for a document without a
\* record whose header carries jotbird_link or the legacy jotbird_url, with
\* that value as url and its last path segment as slug; it never changes or
\* removes a record, and adds none when storeFrontmatter is off.
C13_ReconcileOnlyAdds ==
    [][Loaded =>
        /\ \A p \in Keys(stored.publishedNotes) :
              /\ p \in Keys(publishedNotes')
              /\ publishedNotes'[p] = stored.publishedNotes[p]
        /\ \A p \in Keys(publishedNotes') \ Keys(stored.publishedNotes) :
              LET link == publishedNotes'[p].url
              IN /\ stored.settings.storeFrontmatter
                 /\ p \in files
                 /\ link # <<>>
                 /\ \/ link = frontmatter[p].jotbird_link
                    \/ frontmatter[p].jotbird_link = <<>> /\ link = frontmatter[p].jotbird_url
                 /\ publishedNotes'[p].slug = link[Len(link)]
                 /\ publishedNotes'[p].slug # ""]_vars

C13_Witness ==
    /\ outcome = "loaded"
    /\ Keys(publishedNotes) = {"a.md", "b.md"}
    /\ publishedNotes["a.md"].url = UrlOf("old")
    /\ frontmatter["a.md"].jotbird_link = <<Origin, "p", "x">>
    /\ publishedNotes["b.md"].slug = "x"
    /\ frontmatter["b.md"].jotbird_url = UrlOf("old")

\* unpublishNote has ended with the remote document deleted
Unpublished == unpub.pc = "idle" /\ outcome = "unpublished"

\* C14 as stated: after confirmation and a successful delete call the record
\* is gone, the state is saved and the mirrored header keys are cleared.
C14_UnpublishClearsHeader ==
    Unpublished =>
        /\ unpub.path \notin Keys(publishedNotes)
        /\ stored.publishedNotes = publishedNotes
        /\ frontmatter[unpub.path] = EmptyFm

\* C14: unpublish issues no delete call before the user confirms; after
\* confirmation and a successful delete call the record of the path is
\* removed and the state saved whatever happens to the header, and the five
\* mirrored header keys are cleared provided storeFrontmatter is on and the
\* header write does not fail; without confirmation nothing changes.
C14_UnpublishAfterConfirm ==
    /\ [](unpub.pc = "confirm" => calls = <<>>)
    /\ [][unpub.pc = "confirm" /\ unpub'.pc = "idle" =>
            /\ calls' = <<>>
            /\ publishedNotes' = publishedNotes
            /\ stored' = stored
            /\ frontmatter' = frontmatter]_vars
    /\ [][unpub.pc = "deleting" /\ Unpublished' =>
            /\ publishedNotes' = Remove(publishedNotes, unpub.path)
            /\ stored'.publishedNotes = publishedNotes'
            /\ \A q \in Paths \ {unpub.path} : frontmatter'[q] = frontmatter[q]
            /\ IF settings.storeFrontmatter /\ unpub.path \notin hist'.fmFailed
               THEN frontmatter'[unpub.path] = EmptyFm
               ELSE frontmatter'[unpub.path] = frontmatter[unpub.path]]_vars
    /\ [](Unpublished => /\ Len(calls) = 1
                         /\ calls[1].slug = unpub.published.slug
                         /\ unpub.path \notin Keys(publishedNotes))

C14_Witness ==
    /\ Unpublished
    /\ settings.storeFrontmatter
    /\ unpub.path \notin hist.fmFailed
    /\ frontmatter[unpub.path] = EmptyFm
    /\ clock = 2
    /\ Keys(publishedNotes) # {}

\* the header write of the publish that has just ended failed
HeaderWriteFailed == PublishSucceeded /\ pub.path \in hist.fmFailed

\* C15: when the remote publish call succeeds and the header write fails,
\* the publish still completes: the record holds the returned slug and url,
\* the stored state holds that record, and publishFile reports success.
C15_HeaderFailureKeepsPublish ==
    HeaderWriteFailed =>
        /\ publishedNotes[pub.path].slug = LastReply.slug
        /\ publishedNotes[pub.path].url = LastReply.url
        /\ pub.path \in Keys(stored.publishedNotes)
        /\ stored.publishedNotes[pub.path] = publishedNotes[pub.path]
        /\ outcome = Verb(pub.existing, Len(replies) = 2)

C15_Witness ==
    /\ HeaderWriteFailed
    /\ frontmatter[pub.path].jotbird_link # LastReply.url
    /\ stored.publishedNotes[pub.path].slug = LastReply.slug
    /\ outcome = "Updated"

HasCredential == settings.apiKey # NoKey

\* a call of the authenticated variant carries the credential, one of the
\* anonymous variant the device fingerprint and never the credential
CarriesRightSecret(c) ==
    IF c.fn \in {"publishNote", "deleteDocument"}
    THEN HasCredential /\ c.apiKey = settings.apiKey /\ c.fingerprint = Undefined
    ELSE ~HasCredential /\ c.apiKey = Undefined /\ c.fingerprint = deviceFingerprint

\* C16: every publish and every unpublish uses the authenticated operation
\* exactly when a credential is configured, otherwise the anonymous one with
\* the device fingerprint and the record's slug and edit token; the first
\* call and the retry of a publish use the same variant, and the anonymous
\* variant never carries the credential.
C16_VariantFollowsCredential ==
    /\ \A i \in 1..Len(calls) : CarriesRightSecret(calls[i])
    /\ pub.pc # "idle" =>
         /\ \A i \in 1..Len(calls) : calls[i].fn \in {"publishNote", "trialPublish"}
         /\ calls[1].slug = SlugOf(pub.existing)
         /\ calls[1].fn = "trialPublish" => calls[1].editToken = EditTokenOf(pub.existing)
         /\ Len(calls) = 2 => calls[2].fn = calls[1].fn
    /\ unpub.pc = "deleting" =>
         /\ Len(calls) = 1
         /\ calls[1].fn \in {"deleteDocument", "trialDeleteDocument"}
         /\ calls[1].slug = unpub.published.slug
         /\ calls[1].fn = "trialDeleteDocument" =>
               calls[1].editToken = (IF unpub.published.editToken = Undefined
                                     THEN "" ELSE unpub.published.editToken)

C16_Witness ==
    /\ unpub.pc = "deleting"
    /\ calls[1].fn = "deleteDocument"
    /\ unpub.published.editToken # Undefined
    /\ clock = 2

\* C17: whenever no operation is in flight, a record carries an edit token
\* exactly when the remote document it names is anonymously owned (published
\* without a credential and not yet claimed), and carries none exactly when
\* that document is account-owned.
C17_TokenIffAnonymous ==
    Quiet => \A p \in Keys(publishedNotes) :
                (publishedNotes[p].editToken # Undefined)
                    <=> (publishedNotes[p].slug \in hist.anon)

\* C18: whenever no operation is in flight, the stored publishedNotes and
\* proRefreshDone equal the ones in memory.
C18_StoredMatchesMemory ==
    Quiet => /\ stored.publishedNotes = publishedNotes
             /\ stored.proRefreshDone = proRefreshDone

\* C19: once loadSettings has produced a device fingerprint, every later
\* loadSettings yields the same one: the fingerprint of the installation
\* never changes.
C19_FingerprintStable == [][deviceFingerprint' = deviceFingerprint]_vars

\* C20: whenever a credential becomes newly configured, through the protocol
\* handler or in the settings tab, a claim sweep is started over the records
\* that carry an edit token: the step that sets the key issues the first
\* claim call when there is such a record.
C20_NewCredentialStartsSweep ==
    [][(settings.apiKey = NoKey /\ settings'.apiKey # NoKey
            /\ ToClaim(publishedNotes) # {})
         => /\ sweep'.pc = "claiming"
            /\ Len(calls') = 1 /\ calls'[1].fn = "claimDocument"
            /\ sweep'.order[1] \in ToClaim(publishedNotes)]_vars

\* the listDocuments call of caller c fails in this step
ListFails(c) == chk[c].pc = "calling" /\ chk'[c].pc = "settled" /\ chk'[c].failed

\* checkProStatus is called in this step as caller c
Invoked(c) == chk[c].pc \in {"idle", "returned"} /\ chk'[c].pc # chk[c].pc

\* C21: when the listDocuments call of a status check fails, isPro keeps its
\* value and checkProStatus returns as after a success, the handle cleared;
\* a check invoked without a credential returns at once, issues no call and
\* leaves isPro alone.
C21_FailedCheckKeepsTier ==
    /\ [][\A c \in Callers : ListFails(c) => isPro' = isPro]_vars
    /\ [][\A c \in Callers :
            chk[c].pc = "settled" /\ chk[c].failed /\ chk'[c].pc # "settled"
                => chk'[c].pc \in {"returned", "done"} /\ proCheckInFlight' = NoCheck]_vars
    /\ [][\A c \in Callers :
            Invoked(c) /\ settings.apiKey = NoKey
                => chk'[c].pc \in {"returned", "done"} /\ isPro' = isPro
                   /\ proCheckInFlight' = proCheckInFlight]_vars
    /\ [](\A c \in Callers : chk[c].pc \in {"calling", "settled"} => chk[c].hadKey)

C21_Witness ==
    /\ isPro
    /\ \E c \in Callers : chk[c].pc = "returned" /\ chk[c].failed
    /\ \E c \in Callers : chk[c].pc = "returned" /\ ~chk[c].hadKey

\* the tokens the protocol handler must refuse: none, and one without "jb_"
BadTokens == {Undefined, "bad_token"}

\* no listDocuments call and no claim call is in flight after the step
NoRemoteCall ==
    /\ calls' = <<>> /\ sweep'.pc = "idle"
    /\ \A c \in Callers : chk'[c].pc # "calling"

\* C22 as stated: a protocol request, handled while nothing else is in
\* flight, whose token is absent or does not start
\* with "jb_" changes neither the credential nor the stored state and causes
\* no remote call.
C22_BadTokenNoCall ==
    [][Quiet /\ pub'.pc = "idle" =>
        \A token \in BadTokens, upgraded \in {Undefined, "1"} :
          ProtocolHandler(token, upgraded)
            => settings' = settings /\ stored' = stored /\ NoRemoteCall]_vars

\* C22: a protocol request whose token is absent or does not start with
\* "jb_" changes neither the credential nor the stored state and starts no
\* claim; it causes no remote call unless it carries upgraded=1 while a
\* credential is configured, when the upgrade handler's status check issues
\* its listDocuments call.
C22_BadTokenNoClaim ==
    [][Quiet /\ pub'.pc = "idle" =>
        \A token \in BadTokens, upgraded \in {Undefined, "1"} :
          ProtocolHandler(token, upgraded)
            => /\ settings' = settings /\ stored' = stored
               /\ calls' = <<>> /\ sweep'.pc = "idle"
               /\ IF upgraded = "1" /\ settings.apiKey # NoKey
                  THEN \E c \in Callers :
                         /\ chk'[c].pc = "calling" /\ chk'[c].kind = "upgrade"
                         /\ \A d \in Callers \ {c} : chk'[d].pc # "calling"
                  ELSE \A c \in Callers : chk'[c].pc # "calling"]_vars

C22_Witness ==
    /\ outcome = "invalid"
    /\ settings.apiKey = ValidKey /\ stored.settings.apiKey = ValidKey
    /\ ToClaim(publishedNotes) # {}

\* C23: while storeFrontmatter is off no step writes to a header, and a
\* publish that succeeds still stores the record of the reply and saves it.
C23_NoHeaderWriteWhenOff ==
    /\ [][~settings.storeFrontmatter => frontmatter' = frontmatter]_vars
    /\ [](~settings.storeFrontmatter /\ PublishSucceeded =>
            /\ RecordHoldsReply
            /\ pub.path \in Keys(stored.publishedNotes)
            /\ stored.publishedNotes[pub.path] = publishedNotes[pub.path])

C23_Witness ==
    /\ ~settings.storeFrontmatter
    /\ PublishSucceeded /\ clock = 2
    /\ pub.existing # NoNote
    /\ frontmatter[pub.path].jotbird_link # <<>>
    /\ frontmatter[pub.path].jotbird_link # LastReply.url

\* a header write has just been carried out
HeaderWritten ==
    /\ outcome = "written" /\ settings.storeFrontmatter
    /\ pub.path \notin hist.fmFailed

LegacyKeysAbsent(fm) ==
    fm.jotbird_url = <<>> /\ fm.jotbird_slug = Undefined /\ fm.jotbird_published = <<>>

\* C24 as stated: the header written has jotbird_link equal to the returned
\* url, none of the legacy keys, and jotbird_expires "never" when ttlDays is
\* null and the first ten characters of expiresAt for every other ttlDays.
C24_ExpiresFollowsTtl ==
    HeaderWritten =>
        /\ frontmatter[pub.path].jotbird_link = LastReply.url
        /\ LegacyKeysAbsent(frontmatter[pub.path])
        /\ frontmatter[pub.path].jotbird_expires =
             IF LastReply.ttlDays = TtlNull THEN Never ELSE DatePortion(LastReply.expiresAt)

\* C24: the header written has jotbird_link equal to the returned url, none
\* of the legacy keys, and jotbird_expires "never" when ttlDays is null or 0
\* and the first ten characters of expiresAt for every other ttlDays.
C24_ExpiresFollowsTruthyTtl ==
    HeaderWritten =>
        /\ frontmatter[pub.path].jotbird_link = LastReply.url
        /\ LegacyKeysAbsent(frontmatter[pub.path])
        /\ frontmatter[pub.path].jotbird_expires =
             IF LastReply.ttlDays \in {TtlNull, "0"} THEN Never
             ELSE IF LastReply.expiresAt = ExpiresAt THEN ExpiryDate ELSE ""

C24_Witness ==
    /\ HeaderWritten
    /\ LastReply.ttlDays = "0" /\ LastReply.expiresAt = ExpiresAt
    /\ frontmatter[pub.path].jotbird_expires = Never
    /\ \E p \in files \ {pub.path} :
          /\ frontmatter[p].jotbird_expires = ExpiryDate
          /\ LegacyKeysAbsent(frontmatter[p])

\* an operation of api.ts has ended by throwing
ApiFailed == outcome = "requested" /\ ~LastReply.result.ok

Labelled(message, op) ==
    Len(message) >= 2 /\ message[1] = Context[op] /\ message[2] = ": "

\* C25: every failure of a remote operation reaches the caller as an error
\* whose message begins with the operation's context label followed by ": ".
C25_FailureCarriesLabel ==
    ApiFailed => Labelled(LastReply.result.message, LastReply.op)

\* every response with a failing status is thrown with the label, whatever
\* its body
FailingStatusCarriesLabel ==
    outcome = "requested" /\ LastReply.response.status >= 400 =>
        ~LastReply.result.ok /\ Labelled(LastReply.result.message, LastReply.op)

\* C26: for a text without local image reference, processMarkdown applied
\* to its own output returns that output unchanged, with tag stripping
\* enabled or disabled.
C26_TransformIsStable ==
    outcome = "processed" => LastReply.twice = LastReply.once

\* the lines of a text, and the text of given lines
RECURSIVE Lines(_)
Lines(md) ==
    LET e == Run(md, 1, Chars \ {"\n"})
    IN  IF e = Len(md) THEN <<md>> ELSE <<SubSeq(md, 1, e)>> \o Lines(Slice(md, e + 1))

RECURSIVE Unlines(_)
Unlines(lines) ==
    IF Len(lines) = 1 THEN lines[1] ELSE lines[1] \o <<"\n">> \o Unlines(Tail(lines))

\* one to six "#", a space, and any text
IsHeading(line) ==
    \E n \in 1..6 :
        /\ Len(line) > n /\ line[n + 1] = " "
        /\ \A j \in 1..n : line[j] = "#"

\* a line without its tag tokens: "#" and the tag characters after it, where
\* the "#" starts the line or follows white space
RECURSIVE WithoutTags(_, _)
WithoutTags(line, i) ==
    IF i > Len(line) THEN <<>>
    ELSE IF /\ line[i] = "#" /\ (i = 1 \/ line[i - 1] \in Space)
            /\ i < Len(line) /\ line[i + 1] \in TagChars
         THEN WithoutTags(line, Run(line, i + 1, TagChars) + 1)
    ELSE <<line[i]>> \o WithoutTags(line, i + 1)

\* C27: with tag stripping enabled every heading line comes out of the
\* tag-stripping step unchanged, whatever it contains, and every other line
\* comes out without its tag tokens, the white space or line start before
\* each preserved.
C27_HeadingsKeptTagsRemoved ==
    outcome = "stripped" =>
        LET lines == Lines(LastReply.text)
        IN  LastReply.output =
                Unlines([n \in 1..Len(lines) |->
                            IF IsHeading(lines[n]) THEN lines[n]
                            ELSE WithoutTags(lines[n], 1)])

StartsWithHeading(md) == Len(md) >= 2 /\ md[1] = "#" /\ md[2] = " "

\* C28: the body a publish sends begins with a level-1 heading line:
\* "# <title>" and a blank line are prepended exactly when the transformed
\* body does not begin with one, and the title is the one extractTitle
\* computes from the untransformed text.
C28_BodyBeginsWithHeading ==
    outcome = "prepared" =>
        LET r == LastReply
            title == ExtractTitle(r.text, Basename)
        IN  /\ StartsWithHeading(r.sent.markdown)
            /\ r.sent.title = title
            /\ IF StartsWithHeading(r.transformed)
               THEN r.sent.markdown = r.transformed
               ELSE /\ r.sent.markdown = <<"#", " ">> \o title \o <<"\n", "\n">> \o r.transformed
                    /\ \A j \in 1..Len(title) : title[j] # "\n"

C28_Witness ==
    /\ outcome = "prepared"
    /\ HeaderEnd(LastReply.text) > 0
    /\ LastReply.text[5] = "\""
    /\ LastReply.transformed = <<"a">>
    /\ LastReply.sent.markdown = <<"#", " ", "a", "\n", "\n", "a">>

\* the value of the first title key of the header: what follows "title:" on
\* its line, trimmed; <<>> when there is no such key or nothing follows
TitleValue(text) ==
    LET header == SubSeq(text, 1, HeaderEnd(text))
        keys == {p \in LineStarts(header) :
                    p < Len(header) /\ header[p] = "title" /\ header[p + 1] = ":"}
    IN  IF keys = {} THEN <<>>
        ELSE Trim(SubSeq(header, First(keys) + 2,
                         Run(header, First(keys) + 2, Chars \ {"\n"})))

\* one layer of matching quotes removed
Unwrapped(v) ==
    IF Len(v) >= 2 /\ v[1] \in {"\"", "'"} /\ v[Len(v)] = v[1]
    THEN SubSeq(v, 2, Len(v) - 1) ELSE v

\* the text of the first level-1 heading line; <<>> when there is none
FirstHeading(md) ==
    LET lines == Lines(md)
        hs == {n \in 1..Len(lines) : StartsWithHeading(lines[n]) /\ Trim(Slice(lines[n], 2)) # <<>>}
    IN  IF hs = {} THEN <<>> ELSE Trim(Slice(lines[First(hs)], 2))

NoHash(md) == \A j \in 1..Len(md) : md[j] # "#"

\* C29: extractTitle returns the title value of the header with one layer of
\* matching quotes removed and otherwise unchanged; without a title key the
\* text of the first level-1 heading line of the header-stripped body;
\* without either the base name.
C29_TitlePrecedence ==
    outcome = "prepared" =>
        LET text == LastReply.text
            body == StripFrontmatter(text)
        IN  IF TitleValue(text) # <<>>
            THEN LastReply.sent.title = Unwrapped(TitleValue(text))
            ELSE IF HeaderEnd(text) = 0 /\ FirstHeading(body) # <<>>
            THEN LastReply.sent.title = FirstHeading(body)
            ELSE HeaderEnd(text) = 0 /\ NoHash(body) => LastReply.sent.title = Basename

\* the same with the quotes as the code removes them
TitleAsCoded ==
    outcome = "prepared" =>
        LET text == LastReply.text
            body == StripFrontmatter(text)
        IN  IF TitleValue(text) # <<>>
            THEN LastReply.sent.title = Unquote(TitleValue(text))
            ELSE IF HeaderEnd(text) = 0 /\ FirstHeading(body) # <<>>
            THEN LastReply.sent.title = FirstHeading(body)
            ELSE HeaderEnd(text) = 0 /\ NoHash(body) => LastReply.sent.title = Basename

\* C30: an image name is resolved to the document whose path equals the
\* name if there is one, else to a document whose file name equals the name,
\* else to a document whose path ends with "/" and the name, else to
\* nothing, whatever the order in which the vault lists its documents.
C30_ResolvesByPrecedence ==
    outcome = "resolved" =>
        LET name == LastReply.fileName
            docs == {LastReply.listing[i] : i \in DOMAIN LastReply.listing}
            exact == {d \in docs : d = name}
            named == {d \in docs : <<d[Len(d)]>> = name}
            ending == {d \in docs : /\ Len(d) > Len(name)
                                    /\ SubSeq(d, Len(d) - Len(name) + 1, Len(d)) = name}
        IN  IF exact # {} THEN LastReply.resolved \in exact
            ELSE IF named # {} THEN LastReply.resolved \in named
            ELSE IF ending # {} THEN LastReply.resolved \in ending
            ELSE LastReply.resolved = <<>>

(* ------------------------------ images -------------------------------- *)
\* t occurs in s
Occurs(t, s) == \E i \in 1..(Len(s) - Len(t) + 1) : SubSeq(s, i, i + Len(t) - 1) = t

\* the text of the k-th reference the image step handed on
RefText(run, k) == SubSeq(run.md, run.queued[k].start, run.queued[k].end)

\* an occurrence of the text of reference j shares a character with reference k
Touches(run, j, k) ==
    \E i \in 1..(Len(run.md) - Len(RefText(run, j)) + 1) :
        /\ SubSeq(run.md, i, i + Len(RefText(run, j)) - 1) = RefText(run, j)
        /\ i <= run.queued[k].end
        /\ i + Len(RefText(run, j)) - 1 >= run.queued[k].start

UploadedRefs(run) == {k \in DOMAIN run.queued : run.fates[k] = "uploaded"}
FailedRefs(run) == DOMAIN run.queued \ UploadedRefs(run)

\* C31 as stated: a reference whose image is not found, cannot be read, has
\* no known type or is not uploaded is left as it was by the image step, the
\* other references are still processed and the transformation goes on.
C31_FailedReferenceUntouched ==
    outcome = "transformed" =>
        /\ \A k \in FailedRefs(LastReply) : Occurs(RefText(LastReply, k), LastReply.images)
        /\ \A j \in UploadedRefs(LastReply) : ~Occurs(RefText(LastReply, j), LastReply.images)
        /\ LastReply.output = Trim(ConvertWikiLinks(LastReply.images))

\* C31 (amended): the same for a failed reference none of whose characters
\* belongs to an occurrence of the text of a reference that was uploaded; a
\* wiki-style one is then rewritten by link conversion.
C31_FailedReferenceKept ==
    outcome = "transformed" =>
        /\ \A k \in FailedRefs(LastReply) :
              (\A j \in UploadedRefs(LastReply) : ~Touches(LastReply, j, k)) =>
                 /\ Occurs(RefText(LastReply, k), LastReply.images)
                 /\ LastReply.queued[k].wiki =>
                       Occurs(<<"!">> \o LastReply.queued[k].path, LastReply.output)
        /\ \A j \in UploadedRefs(LastReply) : ~Occurs(RefText(LastReply, j), LastReply.images)
        /\ LastReply.output = Trim(ConvertWikiLinks(LastReply.images))

\* a wiki reference whose upload is rejected, before a markdown reference
\* that is uploaded
C31_Witness ==
    /\ outcome = "transformed"
    /\ LastReply.fates = <<"rejected", "uploaded">>
    /\ LastReply.md = <<"!", "[", "[", "a", ".png", "]", "]",
                        "!", "[", "a", "]", "(", "a", ".png", ")">>
    /\ LastReply.output = <<"!", "a", ".png", "!", "[", "a", "]", "(", Url(2), ")">>

\* the replacement the image step makes for the k-th reference it handed on
Replacement(run, k) ==
    <<"!", "[">> \o run.queued[k].alt \o <<"]", "(", Url(k), ")">>

\* how many times t occurs in s
Count(t, s) ==
    Cardinality({i \in 1..(Len(s) - Len(t) + 1) : SubSeq(s, i, i + Len(t) - 1) = t})

\* C32: no upload is issued for an image reference that starts inside a code
\* region (one call per reference handed on, none of which starts in a fenced
\* block or an inline span), and a reference that was uploaded is replaced
\* wherever its text occurs in the document, code regions included.
C32_CodeSkippedTextReplaced ==
    outcome = "transformed" =>
        /\ Len(LastReply.fates) = Len(LastReply.queued)
        /\ \A k \in DOMAIN LastReply.queued, r \in DOMAIN LastReply.regions :
              ~(/\ LastReply.queued[k].start >= LastReply.regions[r].start
                /\ LastReply.queued[k].start <= LastReply.regions[r].end)
        /\ \A j \in UploadedRefs(LastReply) :
              /\ ~Occurs(RefText(LastReply, j), LastReply.images)
              /\ \E k \in UploadedRefs(LastReply) :
                    /\ RefText(LastReply, k) = RefText(LastReply, j)
                    /\ Count(Replacement(LastReply, k), LastReply.images) =
                          Count(RefText(LastReply, j), LastReply.md)

\* a reference outside code is uploaded; the same text inside an inline
\* span is not handed on, and is replaced too
C32_Witness ==
    /\ outcome = "transformed"
    /\ LastReply.md = <<"!", "[", "[", "a", ".png", "]", "]",
                        "tick", "!", "[", "[", "a", ".png", "]", "]", "tick">>
    /\ LastReply.fates = <<"uploaded">>
    /\ LastReply.regions = <<[start |-> 8, end |-> 16]>>
    /\ LastReply.images = <<"!", "[", "]", "(", Url(1), ")",
                            "tick", "!", "[", "]", "(", Url(1), ")", "tick">>

(* --------------------------- publish, again --------------------------- *)
\* C33: one publishFile invocation issues at most two create-or-update
\* calls; a second one only when the path had a record at invocation and the
\* first call failed with a not-found error; a first call without a slug is
\* never retried; when the retry fails the error is shown and the record is
\* the one the path had before.
C33_AtMostOneRetry ==
    pub.path # "" =>
        /\ Len(calls) <= 2
        /\ Len(calls) = 2 =>
              /\ pub.existing # NoNote
              /\ calls[1].slug = pub.existing.slug
              /\ IsError(replies[1]) /\ IsNotFound(replies[1].error)
        /\ (Len(calls) >= 1 /\ calls[1].slug = Undefined) => Len(calls) = 1
        /\ (pub.pc = "idle" /\ Len(replies) = 2 /\ IsError(replies[2])) =>
              /\ outcome = PublishFailed(replies[2].error)
              /\ Lookup(publishedNotes, pub.path) = pub.existing
              /\ Lookup(stored.publishedNotes, pub.path) = pub.existing

\* an update answered "not found" whose retry fails as well
C33_Witness ==
    /\ pub.pc = "idle" /\ Len(calls) = 2 /\ Len(replies) = 2
    /\ IsError(replies[2])
    /\ calls[2].slug = Undefined
    /\ publishedNotes[pub.path].slug = calls[1].slug
    /\ outcome = "notice"

(* ------------------------- overlapping sweeps ------------------------- *)
\* the claim calls that have been issued and not answered
ClaimsInFlight ==
    (IF sweep.pc = "claiming" THEN 1 ELSE 0) + (IF sweep.again.pc = "claiming" THEN 1 ELSE 0)

\* C34: at most one claim call is in flight at any moment, and no two claim
\* calls carry the same slug and edit token, also when a valid credential
\* is delivered again while a claim sweep is running.
C34_OneClaimInFlight ==
    /\ ClaimsInFlight <= 1
    /\ \A i \in 1..Len(calls), j \in 1..Len(calls) :
          (/\ i < j
           /\ calls[i].fn = "claimDocument" /\ calls[j].fn = "claimDocument"
           /\ calls[i].slug = calls[j].slug)
          => calls[i].editToken # calls[j].editToken

\* C35: a rename or delete notification that arrives while a publish or a
\* claim sweep awaits the remote service is honoured once the operation has
\* finished: no record is left at a path that was deleted or renamed away.
C35_NotificationHonoured ==
    (pub.pc = "idle" /\ sweep.pc = "idle") => Keys(publishedNotes) \subseteq files

(* -------------------------- a failed unpublish ------------------------ *)
\* C36: when the delete call of a confirmed unpublish fails, with a not-found
\* error or any other, the records, the stored state and every header are
\* left as they were, no further remote call is made and the error is shown
\* as a notice.
C36_FailedDeleteChangesNothing ==
    [][(/\ unpub.pc = "deleting" /\ unpub'.pc = "idle"
        /\ IsError(replies'[Len(replies')]))
       => /\ publishedNotes' = publishedNotes
          /\ stored' = stored
          /\ frontmatter' = frontmatter
          /\ calls' = calls
          /\ outcome' = "notice"]_vars

\* a delete call answered "not found": the record of the path and its
\* header are still there
C36_Witness ==
    /\ unpub.pc = "idle" /\ unpub.path \in Keys(publishedNotes)
    /\ frontmatter[unpub.path].jotbird_link # <<>>
    /\ Len(calls) = 1 /\ calls[1].fn \in {"deleteDocument", "trialDeleteDocument"}
    /\ Len(replies) = 1 /\ IsError(replies[1])
    /\ replies[1].error = "Delete: Document not found"
    /\ outcome = "notice"

(* ------------------------ the steps of a publish ---------------------- *)
\* the calls of the publish in progress are answered one before the next is
\* issued, the uploads come before the create-or-update call, and that call
\* is issued only when every queued reference has been dealt with
StepsInOrder ==
    /\ pub.pc = "read" => calls = <<>>
    /\ pub.pc # "idle" => Len(calls) <= Len(replies) + 1
    /\ \A i \in 1..Len(calls), j \in 1..Len(calls) :
          (i < j /\ calls[j].fn = "uploadImage") => calls[i].fn = "uploadImage"
    /\ (pub.pc = "call" /\ calls # <<>>) =>
          /\ calls[Len(calls)].fn # "uploadImage"
          /\ pub.settled = Len(pub.queued)
          /\ Len(replies) = Len(calls) - 1
          /\ \A i \in 1..Len(replies) : calls[i].fn = "uploadImage"

\* C37: within one publish the document is read first, the image uploads
\* are issued one at a time, each answered before the next is issued, and
\* the create-or-update call is issued only after the last of them; a failed
\* read ends the publish with no upload, no remote call and no change to the
\* records, the stored state or the headers.
C37_ReadThenUploadsThenCall ==
    [][/\ StepsInOrder'
       /\ (pub.pc = "read" /\ pub'.pc = "idle") =>
             /\ calls' = <<>>
             /\ publishedNotes' = publishedNotes
             /\ stored' = stored
             /\ frontmatter' = frontmatter
             /\ outcome' = "notice"]_vars

\* two uploads were issued and answered in turn and the create-or-update
\* call is awaited
C37_Witness ==
    /\ pub.pc = "call" /\ Len(pub.queued) = 2
    /\ Len(calls) = 3 /\ Len(replies) = 2
    /\ calls[1].fn = "uploadImage" /\ calls[2].fn = "uploadImage"
    /\ calls[3].fn # "uploadImage"

(* ---------------------- unpublished means unpublished ----------------- *)
\* C38: after a successful unpublish of a path no record for it exists
\* until a publish of it succeeds, also across a restart with startup
\* reconciliation, whatever storeFrontmatter was at the unpublish and
\* whether or not the header was cleared: every record belongs to a path
\* whose last successful publish was not followed by a successful unpublish.
C38_UnpublishedStaysUnpublished ==
    Keys(publishedNotes) \subseteq hist.tracked

(* ----------------------------- one slug, one path --------------------- *)
\* C39: no two paths of publishedNotes hold the same slug, after any
\* sequence of publishes, retries, claims, renames, deletes and restarts
\* with startup reconciliation, the remote service giving every document
\* it creates a slug of its own.
C39_SlugsDistinct ==
    \A p \in Keys(publishedNotes), q \in Keys(publishedNotes) :
        publishedNotes[p].slug = publishedNotes[q].slug => p = q

(* --------------------------- tier and credential ---------------------- *)
\* C40: whenever no status check is in flight, isPro is true only if a
\* credential is configured: a disconnect sets isPro to false and it stays
\* false until a check started after a credential was configured again
\* reports the permanent tier, also when the disconnect happens while a
\* status check is in flight.
C40_ProOnlyWithCredential ==
    (proCheckInFlight = NoCheck /\ ChecksReturned /\ isPro) => settings.apiKey # NoKey
============================================================================
